---- MODULE Spec2Model ----
(***************************************************************************)
(* Model of the request-orchestration engine of react-ai-query:            *)
(*   - stableStringify / buildCacheKey   (core/utils.ts, core/cache.ts)    *)
(*   - the session cache                 (core/cache.ts)                   *)
(*   - executeAI                         (core/execution.ts)               *)
(*   - executeAIStream                   (core/streaming execution)        *)
(*   - combineAbortSignals, parseAndValidateResponse   (core/utils.ts)     *)
(*   - the chunk loop of executeStream   (providers/groq.ts, openai.ts)    *)
(* Strings are sequences of one-character strings, so that trimming,       *)
(* joining and serialisation are computed character by character.          *)
(***************************************************************************)
EXTENDS Integers, Sequences, FiniteSets, TLC

\* ------------------------------------------------------------------------
\* Bounds of the model
\* ------------------------------------------------------------------------
\* largest number literal that occurs in a context value
MaxNum == 2
\* largest retry option a call is given
MaxRetry == 1
\* largest token count a provider reports
MaxTok == 1
\* number of clearSessionCache calls in one behaviour
MaxClears == 1
\* provider data values are 1..MaxData
MaxData == 2
\* largest number of text chunks one streaming attempt receives
MaxChunks == 2
\* largest nesting depth of a schema given to the example builder
MaxDepth == 2

\* ------------------------------------------------------------------------
\* JavaScript values (the context payload and the provider options)
\* ------------------------------------------------------------------------
Undef == [t |-> "undefined"]
Null == [t |-> "null"]
Fn == [t |-> "function"]
Num(n) == [t |-> "number", n |-> n]
Str(cs) == [t |-> "string", s |-> cs]
\* objects and arrays carry their identity: two nodes with the same id are
\* the same object (a shared or a cyclic reference)
Arr(id, es) == [t |-> "array", id |-> id, e |-> es]
\* f is the sequence of <<key, value>> pairs in insertion order
Obj(id, fs) == [t |-> "object", id |-> id, f |-> fs]
Bool(b) == [t |-> "boolean", b |-> b]
BigInt(n) == [t |-> "bigint", n |-> n]

IsObjectType(val) == val.t \in {"array", "object"}

\* ------------------------------------------------------------------------
\* Strings
\* ------------------------------------------------------------------------
Alphabet == <<" ", "\"", ",", "0", "1", "2", "3", "4", "5", "6", "7", "8", "9",
              ":", "C", "E", "N", "S", "Z", "[", "]", "a", "b", "c", "d", "e",
              "f", "g", "i", "l", "m", "n", "o", "p", "r", "s", "t", "u", "x",
              "{", "}">>

\* position of a character in code-unit order
CodeUnit(ch) == CHOOSE i \in 1..Len(Alphabet) : Alphabet[i] = ch

Digits == <<"0", "1", "2", "3", "4", "5", "6", "7", "8", "9">>

IsDigit(ch) == \E i \in 1..Len(Digits) : Digits[i] = ch

DigitValue(ch) == (CHOOSE i \in 1..Len(Digits) : Digits[i] = ch) - 1

RECURSIVE DecimalValue(_)
DecimalValue(cs) ==
  IF cs = <<>> THEN 0
  ELSE 10 * DecimalValue(SubSeq(cs, 1, Len(cs) - 1)) + DigitValue(cs[Len(cs)])

RECURSIVE NumToChars(_)
NumToChars(n) ==
  IF n < 10 THEN <<Digits[n + 1]>>
  ELSE NumToChars(n \div 10) \o <<Digits[(n % 10) + 1]>>

\* white space: the blank and the line break
IsBlank(ch) == ch \in {" ", "\n"}

RECURSIVE TrimStart(_)
TrimStart(cs) ==
  IF cs # <<>> /\ IsBlank(Head(cs)) THEN TrimStart(Tail(cs)) ELSE cs

RECURSIVE TrimEnd(_)
TrimEnd(cs) ==
  IF cs # <<>> /\ IsBlank(cs[Len(cs)])
  THEN TrimEnd(SubSeq(cs, 1, Len(cs) - 1)) ELSE cs

\* String.prototype.trim
Trim(cs) == TrimEnd(TrimStart(cs))

\* Array.prototype.join over strings; undefined and null elements join as ""
RECURSIVE Join(_, _)
Join(parts, sep) ==
  IF parts = <<>> THEN <<>>
  ELSE LET h == IF Head(parts).t = "string" THEN Head(parts).s ELSE <<>>
       IN IF Len(parts) = 1 THEN h ELSE h \o sep \o Join(Tail(parts), sep)

\* ------------------------------------------------------------------------
\* stableStringify (core/utils.ts)
\* ------------------------------------------------------------------------
KeysOf(fs) == [i \in 1..Len(fs) |-> fs[i][1]]

ValueOf(fs, k) == fs[CHOOSE i \in 1..Len(fs) : fs[i][1] = k][2]

\* the order of two strings by code units, as the default comparator of
\* Array.prototype.sort compares them
RECURSIVE CodeUnitLeq(_, _)
CodeUnitLeq(a, b) ==
  IF a = <<>> THEN TRUE
  ELSE IF b = <<>> THEN FALSE
  ELSE IF Head(a) # Head(b) THEN CodeUnit(Head(a)) < CodeUnit(Head(b))
  ELSE CodeUnitLeq(Tail(a), Tail(b))

\* Array.prototype.sort with the default comparator; a key is the sequence
\* of its characters
RECURSIVE SortKeys(_)
SortKeys(ks) ==
  IF ks = <<>> THEN <<>>
  ELSE LET m == CHOOSE i \in 1..Len(ks) :
                  \A j \in 1..Len(ks) : CodeUnitLeq(ks[i], ks[j])
       IN <<ks[m]>> \o SortKeys(SubSeq(ks, 1, m - 1) \o SubSeq(ks, m + 1, Len(ks)))

\* Object.keys(val) without the sort: the insertion order
UnsortedKeys(ks) == ks

\* the order in which serialize visits the keys of an object
KeyOrder(ks) == SortKeys(ks)

Circular == Str(<<"[", "C", "i", "r", "c", "u", "l", "a", "r", "]">>)

\* serialize(val) with the WeakSet `seen` threaded through the traversal;
\* the result is [r |-> the serialized value, seen |-> the set afterwards]
RECURSIVE serialize(_, _)
RECURSIVE serializeElems(_, _)
RECURSIVE serializeFields(_, _, _)

serialize(val, seen) ==
  IF val.t \in {"null", "undefined"} THEN [r |-> val, seen |-> seen]
  ELSE IF val.t = "function" THEN [r |-> Undef, seen |-> seen]
  ELSE IF ~IsObjectType(val) THEN [r |-> val, seen |-> seen]
  ELSE IF val.id \in seen THEN [r |-> Circular, seen |-> seen]
  ELSE IF val.t = "array"
       THEN LET res == serializeElems(val.e, seen \cup {val.id})
            IN [r |-> Arr(val.id, res.r), seen |-> res.seen]
       ELSE LET res == serializeFields(val.f, KeyOrder(KeysOf(val.f)), seen \cup {val.id})
            IN [r |-> Obj(val.id, res.r), seen |-> res.seen]

serializeElems(es, seen) ==
  IF es = <<>> THEN [r |-> <<>>, seen |-> seen]
  ELSE LET h == serialize(Head(es), seen)
           rest == serializeElems(Tail(es), h.seen)
       IN [r |-> <<h.r>> \o rest.r, seen |-> rest.seen]

serializeFields(fs, ks, seen) ==
  IF ks = <<>> THEN [r |-> <<>>, seen |-> seen]
  ELSE LET h == serialize(ValueOf(fs, Head(ks)), seen)
           rest == serializeFields(fs, Tail(ks), h.seen)
       IN [r |-> (IF h.r # Undef THEN <<<<Head(ks), h.r>>>> ELSE <<>>) \o rest.r,
           seen |-> rest.seen]

Quote(cs) == <<"\"">> \o cs \o <<"\"">>

\* JSON.stringify of a serialized value; undefined has no JSON text
RECURSIVE JSONstringify(_)
RECURSIVE JSONelems(_)
RECURSIVE JSONfields(_)

JSONstringify(val) ==
  IF val.t \in {"undefined", "function"} THEN Undef
  ELSE IF val.t = "boolean"
  THEN Str(IF val.b THEN <<"t", "r", "u", "e">> ELSE <<"f", "a", "l", "s", "e">>)
  ELSE IF val.t = "null" THEN Str(<<"n", "u", "l", "l">>)
  ELSE IF val.t = "number" THEN Str(NumToChars(val.n))
  ELSE IF val.t = "string" THEN Str(Quote(val.s))
  ELSE IF val.t = "array" THEN Str(<<"[">> \o JSONelems(val.e) \o <<"]">>)
  ELSE Str(<<"{">> \o JSONfields(val.f) \o <<"}">>)

JSONelems(es) ==
  IF es = <<>> THEN <<>>
  ELSE LET j == JSONstringify(Head(es))
           h == IF j = Undef THEN <<"n", "u", "l", "l">> ELSE j.s
       IN IF Len(es) = 1 THEN h ELSE h \o <<",">> \o JSONelems(Tail(es))

\* a member whose value has no JSON text is left out
JSONfields(fs) ==
  IF fs = <<>> THEN <<>>
  ELSE LET j == JSONstringify(Head(fs)[2])
           rest == JSONfields(Tail(fs))
       IN IF j = Undef THEN rest
          ELSE LET h == Quote(Head(fs)[1]) \o <<":">> \o j.s
               IN IF rest = <<>> THEN h ELSE h \o <<",">> \o rest

stableStringify(value) == JSONstringify(serialize(value, {}).r)

\* ------------------------------------------------------------------------
\* Schemas, session cache and token accounting
\* ------------------------------------------------------------------------
\* a || b on strings and undefined
OrElse(a, b) == IF a.t = "string" /\ a.s # <<>> THEN a ELSE b

\* the values a provider returns as data
Data == 1..MaxData

\* A Zod schema: its description, its _def.typeName, its toString() text and
\* the set of data values safeParse accepts (no transform: validated.data is
\* the data itself).
ZodNumber == [description |-> Undef,
              typeName |-> Str(<<"Z", "o", "d", "N", "u", "m", "b", "e", "r">>),
              text |-> Str(<<"[", "o", "b", "j", "e", "c", "t", "]">>),
              accepts |-> Data]
\* z.number().refine(n => n > 1000000): no provider data satisfies it
ZodImpossible == [description |-> Undef,
                  typeName |-> Str(<<"Z", "o", "d", "E", "f", "f", "e", "c", "t", "s">>),
                  text |-> Str(<<"[", "o", "b", "j", "e", "c", "t", "]">>),
                  accepts |-> {}]
\* z.number().min(2): also a ZodNumber, without a description
ZodNumberMin2 == [description |-> Undef,
                  typeName |-> Str(<<"Z", "o", "d", "N", "u", "m", "b", "e", "r">>),
                  text |-> Str(<<"[", "o", "b", "j", "e", "c", "t", "]">>),
                  accepts |-> {d \in Data : d >= 2}]

safeParse(schema, data) == data \in schema.accepts

\* core/cache.ts buildCacheKey: only prompt, input and schema are read
buildCacheKey(args) ==
  LET schemaId == OrElse(OrElse(args.schema.description, args.schema.typeName),
                         args.schema.text)
  IN Str(Join(<<Str(Trim(args.prompt)), stableStringify(args.input), schemaId>>,
              <<":", ":">>))

HasEntry(cache, key) == key \in DOMAIN cache

\* a get that returns the stored entry itself
getStoredEntry(cache, key) ==
  IF ~HasEntry(cache, key) THEN Undef ELSE cache[key]

\* getFromSessionCache: undefined on a miss, else { ...hit, fromCache: true }
getFromSessionCache(cache, key) ==
  IF ~HasEntry(cache, key) THEN Undef
  ELSE [cache[key] EXCEPT !.fromCache = TRUE]

\* history: the call c is the latest to have written the entry of key
LastWriter(writers, key, c) ==
  [k \in DOMAIN writers \cup {key} |-> IF k = key THEN c ELSE writers[k]]

\* a set into a cache bounded to one entry: the other entries are evicted
setEvicting(cache, key, value) == [k \in {key} |-> value]

\* a set that keeps an entry that is already there
setIfAbsent(cache, key, value) ==
  [k \in DOMAIN cache \cup {key} |-> IF k \in DOMAIN cache THEN cache[k] ELSE value]

\* setSessionCache (the timestamp field is written and never read; it is
\* left out of the entry)
setSessionCache(cache, key, value) ==
  [k \in DOMAIN cache \cup {key} |-> IF k = key THEN value ELSE cache[k]]

EmptyCache == [k \in {} |-> Undef]

CeilDiv4(n) == (n + 3) \div 4

\* JavaScript truthiness of a context value
Truthy(val) ==
  CASE val.t \in {"undefined", "null"} -> FALSE
    [] val.t = "number" -> val.n # 0
    [] val.t = "string" -> val.s # <<>>
    [] val.t = "boolean" -> val.b
    [] val.t = "bigint" -> val.n # 0
    [] OTHER -> TRUE

\* the estimate without the buffer for system instructions
estimateTokensNoBuffer(prompt, input) ==
  LET promptTokens == CeilDiv4(Len(prompt))
      inputTokens == IF Truthy(input) THEN CeilDiv4(Len(stableStringify(input).s)) ELSE 0
  IN promptTokens + inputTokens

estimateTokens(prompt, input) ==
  LET promptTokens == CeilDiv4(Len(prompt))
      inputTokens == IF Truthy(input) THEN CeilDiv4(Len(stableStringify(input).s)) ELSE 0
  IN promptTokens + inputTokens + 8

deriveTokens(prompt, input) == estimateTokens(prompt, input)

\* resolveTokens without the estimate for a provider that reports no count
resolveTokensNoEstimate(resultTokens, prompt, input) ==
  IF resultTokens # Undef THEN resultTokens.n ELSE 0

\* a provider reporting a token count reports any number, 0 included
resolveTokens(resultTokens, prompt, input) ==
  IF resultTokens # Undef THEN resultTokens.n ELSE deriveTokens(prompt, input)

\* ------------------------------------------------------------------------
\* Errors
\* ------------------------------------------------------------------------
\* new AIError(message, code, cause); `at` is the identity of the error
\* object: the attempt in which it was created
AIError(message, code, cause, at) ==
  [ai |-> TRUE, message |-> message, code |-> code, cause |-> cause, at |-> at]

\* an exception that is not an AIError (AbortError, TypeError, ...)
RawError(name, at) == [ai |-> FALSE, name |-> name, at |-> at]

\* the diagnostic of a failed safeParse
ZodError == [ai |-> FALSE, name |-> "ZodError"]

\* ------------------------------------------------------------------------
\* Response normalisation (core/utils.ts)
\* ------------------------------------------------------------------------
ZodStringName == Str(<<"Z", "o", "d", "S", "t", "r", "i", "n", "g">>)
ZodObjectName == Str(<<"Z", "o", "d", "O", "b", "j", "e", "c", "t">>)

\* z.string()
ZodString == [description |-> Undef, typeName |-> ZodStringName,
              text |-> Str(<<"[", "o", "b", "j", "e", "c", "t", "]">>)]

\* z.object(shape): shape is the sequence of <<key, schema>> pairs; the keys
\* of parsed objects are character sequences
ZodObject(shape) ==
  [description |-> Undef, typeName |-> ZodObjectName,
   text |-> Str(<<"[", "o", "b", "j", "e", "c", "t", "]">>), shape |-> shape]

HasKey(obj, key) == \E i \in 1..Len(obj.f) : obj.f[i][1] = key

\* schema.safeParse(val).success: a string schema accepts every string, an
\* object schema an object whose declared fields are present and valid, a
\* number schema the numbers it accepts
RECURSIVE safeParseValue(_, _)
safeParseValue(schema, val) ==
  IF schema.typeName = ZodStringName THEN val.t = "string"
  ELSE IF schema.typeName = ZodObjectName
  THEN /\ val.t = "object"
       /\ \A i \in 1..Len(schema.shape) :
            /\ HasKey(val, schema.shape[i][1])
            /\ safeParseValue(schema.shape[i][2], ValueOf(val.f, schema.shape[i][1]))
  ELSE val.t = "number" /\ safeParse(schema, val.n)

\* schema.safeParse(val).data of a valid value: an object schema builds a
\* new object of the declared fields (unknown keys are stripped)
RECURSIVE validatedData(_, _)
validatedData(schema, val) ==
  IF schema.typeName = ZodObjectName
  THEN Obj(val.id, [i \in 1..Len(schema.shape) |->
                      <<schema.shape[i][1],
                        validatedData(schema.shape[i][2],
                                      ValueOf(val.f, schema.shape[i][1]))>>])
  ELSE val

isPrimitiveSchema(schema) ==
  schema.typeName \in {Str(<<"Z", "o", "d", "S", "t", "r", "i", "n", "g">>),
                       Str(<<"Z", "o", "d", "N", "u", "m", "b", "e", "r">>),
                       Str(<<"Z", "o", "d", "B", "o", "o", "l", "e", "a", "n">>)}

\* a JSON integer literal: digits without a leading zero
IsJsonInteger(cs) ==
  /\ cs # <<>>
  /\ \A i \in 1..Len(cs) : IsDigit(cs[i])
  /\ Len(cs) > 1 => cs[1] # "0"

\* the first position from i on that holds no white space
SkipBlanks(cs, i) ==
  CHOOSE j \in i..(Len(cs) + 1) :
    /\ \A k \in i..(j - 1) : IsBlank(cs[k])
    /\ j = Len(cs) + 1 \/ ~IsBlank(cs[j])

JSONFail == [ok |-> FALSE, v |-> Undef, next |-> 0]

\* a JSON string that starts at cs[i] = '"' (texts hold no escapes): it
\* ends at the next quote and holds no line break
parseString(cs, i) ==
  IF \E j \in (i + 1)..Len(cs) : cs[j] = "\""
  THEN LET j == CHOOSE j \in (i + 1)..Len(cs) :
                  cs[j] = "\"" /\ \A k \in (i + 1)..(j - 1) : cs[k] # "\""
       IN IF \E k \in (i + 1)..(j - 1) : cs[k] = "\n" THEN JSONFail
          ELSE [ok |-> TRUE, v |-> Str(SubSeq(cs, i + 1, j - 1)), next |-> j + 1]
  ELSE JSONFail

\* a JSON number that starts at the digit cs[i] (texts hold integers only)
parseNumber(cs, i) ==
  LET j == CHOOSE j \in i..Len(cs) :
             /\ \A k \in i..j : IsDigit(cs[k])
             /\ j = Len(cs) \/ ~IsDigit(cs[j + 1])
      lit == SubSeq(cs, i, j)
  IN IF IsJsonInteger(lit)
     THEN [ok |-> TRUE, v |-> Num(DecimalValue(lit)), next |-> j + 1]
     ELSE JSONFail

\* add or overwrite a member of an object under construction
SetField(fs, key, val) ==
  IF \E i \in 1..Len(fs) : fs[i][1] = key
  THEN [i \in 1..Len(fs) |-> IF fs[i][1] = key THEN <<key, val>> ELSE fs[i]]
  ELSE Append(fs, <<key, val>>)

\* JSON.parse, by recursive descent from position i: the value read and the
\* position after it.  An object or array is a new one, identified by the
\* position of its opening bracket.
RECURSIVE parseValue(_, _)
RECURSIVE parseMembers(_, _, _, _)
RECURSIVE parseElements(_, _, _, _)

parseValue(cs, i) ==
  IF i > Len(cs) THEN JSONFail
  ELSE IF cs[i] = "\"" THEN parseString(cs, i)
  ELSE IF IsDigit(cs[i]) THEN parseNumber(cs, i)
  ELSE IF cs[i] = "n"
  THEN IF i + 3 <= Len(cs) /\ SubSeq(cs, i, i + 3) = <<"n", "u", "l", "l">>
       THEN [ok |-> TRUE, v |-> Null, next |-> i + 4]
       ELSE JSONFail
  ELSE IF cs[i] = "{"
  THEN LET j == SkipBlanks(cs, i + 1)
       IN IF j <= Len(cs) /\ cs[j] = "}"
          THEN [ok |-> TRUE, v |-> Obj(i, <<>>), next |-> j + 1]
          ELSE parseMembers(cs, j, i, <<>>)
  ELSE IF cs[i] = "["
  THEN LET j == SkipBlanks(cs, i + 1)
       IN IF j <= Len(cs) /\ cs[j] = "]"
          THEN [ok |-> TRUE, v |-> Arr(i, <<>>), next |-> j + 1]
          ELSE parseElements(cs, j, i, <<>>)
  ELSE JSONFail

\* the members of the object opened at position id, from the key at i on
parseMembers(cs, i, id, fs) ==
  IF i > Len(cs) \/ cs[i] # "\"" THEN JSONFail
  ELSE LET k == parseString(cs, i)
       IN IF ~k.ok THEN JSONFail
          ELSE LET c == SkipBlanks(cs, k.next)
               IN IF c > Len(cs) \/ cs[c] # ":" THEN JSONFail
                  ELSE LET val == parseValue(cs, SkipBlanks(cs, c + 1))
                       IN IF ~val.ok THEN JSONFail
                          ELSE LET e == SkipBlanks(cs, val.next)
                                   fs2 == SetField(fs, k.v.s, val.v)
                               IN IF e > Len(cs) THEN JSONFail
                                  ELSE IF cs[e] = "}"
                                  THEN [ok |-> TRUE, v |-> Obj(id, fs2), next |-> e + 1]
                                  ELSE IF cs[e] = ","
                                  THEN parseMembers(cs, SkipBlanks(cs, e + 1), id, fs2)
                                  ELSE JSONFail

\* the elements of the array opened at position id, from the value at i on
parseElements(cs, i, id, es) ==
  LET val == parseValue(cs, i)
  IN IF ~val.ok THEN JSONFail
     ELSE LET e == SkipBlanks(cs, val.next)
              es2 == Append(es, val.v)
          IN IF e > Len(cs) THEN JSONFail
             ELSE IF cs[e] = "]"
             THEN [ok |-> TRUE, v |-> Arr(id, es2), next |-> e + 1]
             ELSE IF cs[e] = ","
             THEN parseElements(cs, SkipBlanks(cs, e + 1), id, es2)
             ELSE JSONFail

\* JSON.parse(text): one value with white space around it, else it throws
JSONparse(cs) ==
  LET r == parseValue(cs, SkipBlanks(cs, 1))
  IN IF r.ok /\ SkipBlanks(cs, r.next) > Len(cs)
     THEN [ok |-> TRUE, v |-> r.v]
     ELSE [ok |-> FALSE, v |-> Undef]

\* content.match(/^\s*(\{[\s\S]*\})\s*(?:\n|$)/): the text opens with "{"
\* after white space, and the greedy group ends at the last "}" that is
\* followed by white space and then a line break or the end of the text
ExtractObject(cs) ==
  LET i == SkipBlanks(cs, 1)
      ends == {j \in (i + 1)..Len(cs) :
                 /\ cs[j] = "}"
                 /\ \E k \in j..Len(cs) :
                      /\ \A m \in (j + 1)..k : IsBlank(cs[m])
                      /\ k = Len(cs) \/ cs[k + 1] = "\n"}
  IN IF i <= Len(cs) /\ cs[i] = "{" /\ ends # {}
     THEN [matched |-> TRUE,
           group |-> SubSeq(cs, i, CHOOSE j \in ends : \A j2 \in ends : j2 <= j)]
     ELSE [matched |-> FALSE, group |-> <<>>]

\* safeJsonParse: JSON.parse, else JSON.parse of the extracted object, else
\* undefined
safeJsonParse(content) ==
  LET whole == JSONparse(content)
      jsonMatch == ExtractObject(content)
  IN IF whole.ok THEN whole.v
     ELSE IF jsonMatch.matched THEN JSONparse(jsonMatch.group).v
     ELSE Undef

\* the wrapper keys unwrapLLMResponse tries, in its order
WrapperKeys ==
  << <<"d", "a", "t", "a">>, <<"r", "e", "s", "u", "l", "t">>,
     <<"r", "e", "s", "p", "o", "n", "s", "e">>, <<"o", "u", "t", "p", "u", "t">>,
     <<"a", "n", "s", "w", "e", "r">>, <<"e", "r", "r", "o", "r">>,
     <<"m", "e", "s", "s", "a", "g", "e">>, <<"t", "e", "x", "t">>,
     <<"v", "a", "l", "u", "e">> >>

DataKey == WrapperKeys[1]

\* Object.keys(obj) and `key in obj`: an array has its indices as keys (and
\* length, which is no wrapper key), an object its members
OwnKeys(obj) ==
  IF obj.t = "array" THEN [i \in 1..Len(obj.e) |-> NumToChars(i - 1)]
  ELSE KeysOf(obj.f)

Member(obj, key) ==
  IF obj.t = "array"
  THEN obj.e[CHOOSE i \in 1..Len(obj.e) : NumToChars(i - 1) = key]
  ELSE ValueOf(obj.f, key)

In(key, obj) == \E i \in 1..Len(OwnKeys(obj)) : OwnKeys(obj)[i] = key

\* the wrapper-key loop that unwraps the first key present, whatever the
\* number of keys
FirstWrapperPresent(obj) ==
  IF \E n \in 1..Len(WrapperKeys) : In(WrapperKeys[n], obj)
  THEN [found |-> TRUE,
        value |-> Member(obj, WrapperKeys[
                    CHOOSE n \in 1..Len(WrapperKeys) :
                      /\ In(WrapperKeys[n], obj)
                      /\ \A m \in 1..(n - 1) : ~In(WrapperKeys[m], obj)])]
  ELSE [found |-> FALSE, value |-> Undef]

\* the wrapper-key loop of unwrapLLMResponse: the first key that is in the
\* object while the object has exactly one key
FirstWrapper(obj) ==
  IF \E n \in 1..Len(WrapperKeys) :
       In(WrapperKeys[n], obj) /\ Len(OwnKeys(obj)) = 1
  THEN [found |-> TRUE,
        value |-> Member(obj, WrapperKeys[
                    CHOOSE n \in 1..Len(WrapperKeys) :
                      /\ In(WrapperKeys[n], obj) /\ Len(OwnKeys(obj)) = 1
                      /\ \A m \in 1..(n - 1) :
                           ~(In(WrapperKeys[m], obj) /\ Len(OwnKeys(obj)) = 1)])]
  ELSE [found |-> FALSE, value |-> Undef]

\* unwrapLLMResponse: a value that is falsy or not an object is returned as
\* it is; for a primitive schema an object is unwrapped from a wrapper key
\* or from its single key; any object is unwrapped from its "data" key
unwrapLLMResponse(parsed, schema) ==
  IF ~Truthy(parsed) \/ ~IsObjectType(parsed) THEN parsed
  ELSE IF isPrimitiveSchema(schema) /\ FirstWrapper(parsed).found
  THEN FirstWrapper(parsed).value
  ELSE IF isPrimitiveSchema(schema) /\ Len(OwnKeys(parsed)) = 1
  THEN Member(parsed, OwnKeys(parsed)[1])
  ELSE IF In(DataKey, parsed) THEN Member(parsed, DataKey)
  ELSE parsed

\* the messages built from the provider name a caller passes
ReturnedNoData(providerName) ==
  CASE providerName = "Groq" -> "Groq returned no data"
    [] providerName = "OpenAI" -> "OpenAI returned no data"
    [] providerName = "Local provider" -> "Local provider returned no data"
    [] OTHER -> "Provider returned no data"

ReturnedInvalidSchema(providerName) ==
  CASE providerName = "Groq" -> "Groq returned invalid schema"
    [] providerName = "OpenAI" -> "OpenAI returned invalid schema"
    [] providerName = "Local provider" -> "Local provider returned invalid schema"
    [] OTHER -> "Provider returned invalid schema"

\* String.prototype.trim of a string, any other value as it is
TrimmedContent(rawContent) ==
  IF rawContent.t = "string" THEN Str(Trim(rawContent.s)) ELSE rawContent

\* the candidate value of parseAndValidateResponse: the trimmed content when
\* the schema is primitive and accepts it, else the parsed content unwrapped
CandidateValue(rawContent, schema, isPrimitive) ==
  LET trimmed == TrimmedContent(rawContent)
      parsed == IF rawContent.t = "string" THEN safeJsonParse(rawContent.s)
                ELSE rawContent
  IN IF isPrimitive /\ safeParseValue(schema, trimmed)
     THEN [direct |-> TRUE, parsed |-> Undef, data |-> trimmed]
     ELSE [direct |-> FALSE, parsed |-> parsed,
           data |-> unwrapLLMResponse(parsed, schema)]

\* the final return that hands back the candidate without validating it
returnUnvalidated(rawContent, schema, isPrimitive, providerName) ==
  LET data == CandidateValue(rawContent, schema, isPrimitive).data
  IN IF data = Undef
     THEN [ok |-> FALSE, ai |-> TRUE, code |-> "provider_error",
           message |-> ReturnedNoData(providerName), cause |-> Undef]
     ELSE [ok |-> TRUE, data |-> data]

\* parseAndValidateResponse: the validated data, or the AIError it throws
parseAndValidateResponse(rawContent, schema, isPrimitive, providerName) ==
  LET data == CandidateValue(rawContent, schema, isPrimitive).data
  IN IF data = Undef
     THEN [ok |-> FALSE, ai |-> TRUE, code |-> "provider_error",
           message |-> ReturnedNoData(providerName), cause |-> Undef]
     ELSE IF ~safeParseValue(schema, data)
     THEN [ok |-> FALSE, ai |-> TRUE, code |-> "validation_error",
           message |-> ReturnedInvalidSchema(providerName), cause |-> ZodError]
     ELSE [ok |-> TRUE, data |-> validatedData(schema, data)]

parseAndValidateStreamResponse(rawText, schema, providerName) ==
  parseAndValidateResponse(Str(rawText), schema, isPrimitiveSchema(schema),
                           providerName)

\* ------------------------------------------------------------------------
\* Schema definitions (schema._def) and the example builder (core/utils.ts)
\* ------------------------------------------------------------------------
\* a _def.typeName: "Zod" and the name of the type
Zod(name) == Str(<<"Z", "o", "d">> \o name)

ZodBooleanName == Zod(<<"B", "o", "o", "l", "e", "a", "n">>)
ZodNumberName == Zod(<<"N", "u", "m", "b", "e", "r">>)
ZodNullName == Zod(<<"N", "u", "l", "l">>)
ZodUndefinedName == Zod(<<"U", "n", "d", "e", "f", "i", "n", "e", "d">>)
ZodLiteralName == Zod(<<"L", "i", "t", "e", "r", "a", "l">>)
ZodEnumName == Zod(<<"E", "n", "u", "m">>)
ZodNativeEnumName == Zod(<<"N", "a", "t", "i", "v", "e", "E", "n", "u", "m">>)
ZodArrayName == Zod(<<"A", "r", "r", "a", "y">>)
ZodOptionalName == Zod(<<"O", "p", "t", "i", "o", "n", "a", "l">>)
ZodNullableName == Zod(<<"N", "u", "l", "l", "a", "b", "l", "e">>)
ZodDefaultName == Zod(<<"D", "e", "f", "a", "u", "l", "t">>)
ZodUnionName == Zod(<<"U", "n", "i", "o", "n">>)
ZodTupleName == Zod(<<"T", "u", "p", "l", "e">>)
ZodRecordName == Zod(<<"R", "e", "c", "o", "r", "d">>)
ZodAnyName == Zod(<<"A", "n", "y">>)
ZodUnknownName == Zod(<<"U", "n", "k", "n", "o", "w", "n">>)
\* two type names the builders have no case for
ZodDateName == Zod(<<"D", "a", "t", "e">>)
ZodBigIntName == Zod(<<"B", "i", "g", "I", "n", "t">>)

\* a ZodDef is a record: typeName and the fields its type has.  shape is the
\* sequence of <<key, def>> pairs that Object.entries(def.shape()) yields,
\* defaultValue the value the default factory returns.
Def(typeName) == [typeName |-> typeName]
DefNumber(checks) == [typeName |-> ZodNumberName, checks |-> checks]
DefLiteral(value) == [typeName |-> ZodLiteralName, value |-> value]
DefEnum(values) == [typeName |-> ZodEnumName, values |-> values]
DefArray(type) == [typeName |-> ZodArrayName, type |-> type]
DefObject(shape) == [typeName |-> ZodObjectName, shape |-> shape]
DefInner(typeName, innerType) == [typeName |-> typeName, innerType |-> innerType]
DefDefault(value, innerType) ==
  [typeName |-> ZodDefaultName, defaultValue |-> value, innerType |-> innerType]
DefUnion(options) == [typeName |-> ZodUnionName, options |-> options]

\* def.field is set (the optional fields of the ZodDef interface)
Has(def, field) == field \in DOMAIN def

\* Array.prototype.join of strings
RECURSIVE JoinStrings(_, _)
JoinStrings(parts, sep) ==
  IF parts = <<>> THEN <<>>
  ELSE IF Len(parts) = 1 THEN Head(parts)
  ELSE Head(parts) \o sep \o JoinStrings(Tail(parts), sep)

\* the alternative of a union that stands for it: the last one
LastOption(options) == options[Len(options)]

\* def.options[0]
FirstOption(options) == options[1]

\* buildExample(def)
RECURSIVE buildExample(_)
buildExample(def) ==
  LET typeName == def.typeName
  IN CASE typeName = ZodStringName -> Str(<<"s", "t", "r", "i", "n", "g">>)
       [] typeName = ZodNumberName -> Num(0)
       [] typeName = ZodBooleanName -> Bool(TRUE)
       [] typeName = ZodNullName -> Null
       [] typeName = ZodUndefinedName -> Undef
       [] typeName = ZodLiteralName -> IF Has(def, "value") THEN def.value ELSE Undef
       [] typeName = ZodEnumName ->
            IF Has(def, "values") THEN Str(JoinStrings(def.values, <<" ", "|", " ">>))
            ELSE Str(<<"e", "n", "u", "m">>)
       [] typeName = ZodNativeEnumName ->
            Str(<<"e", "n", "u", "m", "_", "v", "a", "l", "u", "e">>)
       [] typeName = ZodArrayName ->
            IF Has(def, "type") THEN Arr(0, <<buildExample(def.type)>>)
            ELSE Arr(0, <<Str(<<"i", "t", "e", "m">>)>>)
       [] typeName = ZodObjectName ->
            IF Has(def, "shape")
            THEN Obj(0, [i \in 1..Len(def.shape) |->
                           <<def.shape[i][1], buildExample(def.shape[i][2])>>])
            ELSE Obj(0, <<>>)
       [] typeName \in {ZodOptionalName, ZodNullableName} ->
            IF Has(def, "innerType") THEN buildExample(def.innerType) ELSE Null
       [] typeName = ZodDefaultName ->
            IF Has(def, "defaultValue") THEN def.defaultValue
            ELSE IF Has(def, "innerType") THEN buildExample(def.innerType)
            ELSE Null
       [] typeName = ZodUnionName ->
            IF Has(def, "options") /\ Len(def.options) > 0
            THEN buildExample(FirstOption(def.options))
            ELSE Str(<<"u", "n", "i", "o", "n", "_", "v", "a", "l", "u", "e">>)
       [] typeName = ZodTupleName ->
            Arr(0, <<Str(<<"t", "u", "p", "l", "e", "_", "i", "t", "e", "m">>)>>)
       [] typeName = ZodRecordName ->
            Obj(0, << <<<<"k", "e", "y">>, Str(<<"v", "a", "l", "u", "e">>)>> >>)
       [] typeName = ZodAnyName ->
            Str(<<"a", "n", "y", "_", "v", "a", "l", "u", "e">>)
       [] typeName = ZodUnknownName ->
            Str(<<"u", "n", "k", "n", "o", "w", "n", "_", "v", "a", "l", "u", "e">>)
       [] OTHER -> Str(<<"<">> \o typeName.s \o <<">">>)

\* JSON.stringify throws a TypeError on a value that holds a BigInt
RECURSIVE HoldsBigInt(_)
HoldsBigInt(val) ==
  CASE val.t = "bigint" -> TRUE
    [] val.t = "array" -> \E i \in 1..Len(val.e) : HoldsBigInt(val.e[i])
    [] val.t = "object" -> \E i \in 1..Len(val.f) : HoldsBigInt(val.f[i][2])
    [] OTHER -> FALSE

\* JSON.stringify(example, null, 0): the text, or the TypeError thrown
stringifyExample(example) ==
  IF HoldsBigInt(example) THEN [ok |-> FALSE, error |-> RawError("TypeError", 0)]
  ELSE [ok |-> TRUE, text |-> JSONstringify(example)]

\* zodToJsonExample(schema), for a schema whose _def is def
zodToJsonExample(def) == stringifyExample(buildExample(def))

\* ------------------------------------------------------------------------
\* The mock provider (mockProvider)
\* ------------------------------------------------------------------------
\* a string constant of the source that is only handed on: it is kept in
\* one piece
Literal(text) == Str(<<text>>)

UpperCase == <<"A", "B", "C", "D", "E", "F", "G", "H", "I", "J", "K", "L", "M",
               "N", "O", "P", "Q", "R", "S", "T", "U", "V", "W", "X", "Y", "Z">>
LowerCase == <<"a", "b", "c", "d", "e", "f", "g", "h", "i", "j", "k", "l", "m",
               "n", "o", "p", "q", "r", "s", "t", "u", "v", "w", "x", "y", "z">>

\* String.prototype.toLowerCase
toLowerCase(cs) ==
  [i \in 1..Len(cs) |->
     IF \E n \in 1..26 : UpperCase[n] = cs[i]
     THEN LowerCase[CHOOSE n \in 1..26 : UpperCase[n] = cs[i]]
     ELSE cs[i]]

\* String.prototype.includes
Includes(cs, part) ==
  \E i \in 0..(Len(cs) - Len(part)) : SubSeq(cs, i + 1, i + Len(part)) = part

\* MOCK_STRINGS, in the order of Object.entries
MOCK_STRINGS ==
  << <<<<"r", "e", "a", "s", "o", "n">>,
       <<"Based on the input analysis, this decision reflects standard processing criteria.",
         "The data suggests a confident assessment given the provided context.",
         "Analysis indicates this outcome aligns with expected patterns.">> >>,
     <<<<"s", "u", "g", "g", "e", "s", "t", "e", "d", "A", "c", "t", "i", "o", "n">>,
       <<"Please try again in a few moments. If the issue persists, contact our support team.",
         "Check your information and try again. Our team is here to help if needed.",
         "Wait a moment and refresh the page. The issue should resolve shortly.",
         "Log out and log back in to refresh your session.">> >>,
     <<<<"u", "s", "e", "r", "F", "r", "i", "e", "n", "d", "l", "y", "M", "e", "s",
         "s", "a", "g", "e">>,
       <<"We're having trouble completing your request right now.",
         "Something unexpected happened. Don't worry, your data is safe.",
         "We couldn't process that action at the moment.",
         "There was a hiccup on our end. Please try again.">> >>,
     <<<<"t", "e", "c", "h", "n", "i", "c", "a", "l", "C", "o", "n", "t", "e", "x", "t">>,
       <<"HTTP error response received from upstream service.",
         "Request validation failed at gateway level.",
         "Service temporarily unavailable due to high load.",
         "Authentication token requires refresh.">> >>,
     <<<<"s", "u", "m", "m", "a", "r", "y">>,
       <<"The input contains structured information including contact details and transaction data.",
         "Multiple data points extracted successfully from the provided text.",
         "Key information identified and categorized for further processing.">> >>,
     <<<<"d", "e", "s", "c", "r", "i", "p", "t", "i", "o", "n">>,
       <<"Retrieves filtered data based on the specified criteria and parameters.",
         "Returns matching records from the database with pagination support.",
         "Executes the requested operation with the provided configuration.">> >>,
     <<<<"l", "a", "b", "e", "l">>,
       <<"Order ID", "Customer Name", "Email Address", "Phone", "Amount", "Date",
         "Address">> >>,
     <<<<"v", "a", "l", "u", "e">>,
       <<"#INV-2024-0892", "John Smith", "user@example.com", "(555) 123-4567",
         "$149.99", "Dec 15, 2024", "123 Main St">> >>,
     <<<<"e", "n", "d", "p", "o", "i", "n", "t">>,
       <<"/api/v1/users", "/api/v1/orders", "/api/v1/products", "/api/v1/analytics">> >>,
     <<<<"k", "e", "y">>,
       <<"filter", "limit", "offset", "sort", "include", "startDate", "endDate">> >> >>

\* Math.floor(Math.random() * n): any of 0 .. n-1
RandomIndex(n) == 0..(n - 1)

\* getContextualString: the set of the strings it can return
getContextualString(fieldName, prompt, context) ==
  LET lowerField == toLowerCase(fieldName)
      matches == {n \in 1..Len(MOCK_STRINGS) : Includes(lowerField, MOCK_STRINGS[n][1])}
      InEither(part) == Includes(context, part) \/ Includes(prompt, part)
  IN IF matches # {}
     THEN LET values == MOCK_STRINGS[CHOOSE n \in matches : \A m \in matches : n <= m][2]
          IN {Literal(values[i + 1]) : i \in RandomIndex(Len(values))}
     ELSE IF InEither(<<"f", "e", "e", "d", "b", "a", "c", "k">>)
     THEN {Literal("Customer feedback indicates mixed sentiment requiring attention.")}
     ELSE IF InEither(<<"m", "o", "d", "e", "r", "a", "t">>)
     THEN {Literal("Content reviewed against community guidelines and safety policies.")}
     ELSE IF InEither(<<"e", "x", "t", "r", "a", "c", "t">>)
     THEN {Literal("Data extracted from unstructured text input.")}
     ELSE IF \/ Includes(context, <<"a", "p", "i">>) \/ Includes(context, <<"A", "P", "I">>)
             \/ Includes(prompt, <<"A", "P", "I">>)
     THEN {Literal("API endpoint suggestion based on natural language query.")}
     ELSE {Str(<<"Generated response for: ">> \o fieldName)}

\* def.checks?.find(c => c.kind === kind)?.value ?? orElse
CheckValue(def, kind, orElse) ==
  IF Has(def, "checks") /\ \E i \in 1..Len(def.checks) : def.checks[i].kind = kind
  THEN def.checks[CHOOSE i \in 1..Len(def.checks) :
                    /\ def.checks[i].kind = kind
                    /\ \A j \in 1..(i - 1) : def.checks[j].kind # kind].value
  ELSE orElse

\* buildMockValue(def, prompt, context, fieldName): the set of the values it
\* can return, one for every outcome of its Math.random() calls.  The field
\* names of the schemas are root, reason, urgency, confidence, safe,
\* sentiment and x, with [0] and [1] added for array elements; the branches
\* for other field names (approve, retryable, severity, category, method,
\* type, keyPoint, flag, extractedField, queryParam) are not taken by them.
RECURSIVE buildMockValue(_, _, _, _)
RECURSIVE buildMockFields(_, _, _)
buildMockValue(def, prompt, context, fieldName) ==
  LET typeName == def.typeName
  IN CASE typeName = ZodStringName -> getContextualString(fieldName, prompt, context)
       [] typeName = ZodNumberName ->
            LET min == CheckValue(def, "min", 0)
                max == CheckValue(def, "max", 100)
            IN IF Includes(fieldName, <<"u", "r", "g", "e", "n", "c", "y">>)
               THEN {Num(r + 2) : r \in RandomIndex(3)}
               ELSE IF Includes(fieldName, <<"c", "o", "n", "f", "i", "d", "e", "n", "c", "e">>)
               THEN {Num(r + 75) : r \in RandomIndex(20)}
               ELSE {Num(r + min) : r \in RandomIndex(max - min + 1)}
       [] typeName = ZodBooleanName ->
            IF Includes(fieldName, <<"s", "a", "f", "e">>)
            THEN {Bool(/\ ~Includes(context, <<"s", "p", "a", "m">>)
                       /\ ~Includes(context, <<"s", "c", "a", "m">>))}
            ELSE {Bool(TRUE)}
       [] typeName = ZodNullName -> {Null}
       [] typeName = ZodLiteralName -> {IF Has(def, "value") THEN def.value ELSE Undef}
       [] typeName = ZodEnumName ->
            LET values == IF Has(def, "values") THEN def.values ELSE <<>>
            IN IF Includes(fieldName, <<"s", "e", "n", "t", "i", "m", "e", "n", "t">>)
               THEN IF \/ Includes(context, <<"f", "r", "u", "s", "t", "r", "a", "t">>)
                       \/ Includes(context, <<"a", "n", "g", "r", "y">>)
                       \/ Includes(context, <<"t", "e", "r", "r", "i", "b", "l", "e">>)
                    THEN {Str(<<"n", "e", "g", "a", "t", "i", "v", "e">>)}
                    ELSE IF \/ Includes(context, <<"l", "o", "v", "e">>)
                            \/ Includes(context, <<"g", "r", "e", "a", "t">>)
                            \/ Includes(context, <<"a", "m", "a", "z", "i", "n", "g">>)
                    THEN {Str(<<"p", "o", "s", "i", "t", "i", "v", "e">>)}
                    ELSE IF values = <<>> THEN {Undef}
                    ELSE {Str(values[i + 1]) : i \in RandomIndex(Len(values))}
               ELSE IF values = <<>>
               THEN {Str(<<"e", "n", "u", "m", "_", "v", "a", "l", "u", "e">>)}
               ELSE {Str(values[1])}
       [] typeName = ZodArrayName ->
            IF Has(def, "type")
            THEN {Arr(0, <<a, b>>) :
                    a \in buildMockValue(def.type, prompt, context,
                                         fieldName \o <<"[", "0", "]">>),
                    b \in buildMockValue(def.type, prompt, context,
                                         fieldName \o <<"[", "1", "]">>)}
            ELSE {Arr(0, <<>>)}
       [] typeName = ZodObjectName ->
            IF Has(def, "shape")
            THEN {Obj(0, fs) : fs \in buildMockFields(def.shape, prompt, context)}
            ELSE {Obj(0, <<>>)}
       [] typeName \in {ZodOptionalName, ZodNullableName} ->
            IF Has(def, "innerType")
            THEN buildMockValue(def.innerType, prompt, context, fieldName)
            ELSE {Null}
       [] typeName = ZodDefaultName ->
            IF Has(def, "defaultValue") THEN {def.defaultValue}
            ELSE IF Has(def, "innerType")
            THEN buildMockValue(def.innerType, prompt, context, fieldName)
            ELSE {Null}
       [] typeName = ZodUnionName ->
            IF Has(def, "options") /\ Len(def.options) > 0
            THEN buildMockValue(def.options[1], prompt, context, fieldName)
            ELSE {Str(<<"u", "n", "i", "o", "n", "_", "v", "a", "l", "u", "e">>)}
       [] OTHER -> {Str(<<"<", "m", "o", "c", "k", ":">> \o typeName.s \o <<">">>)}

\* the loop over Object.entries(shape): the field lists it can build
buildMockFields(shape, prompt, context) ==
  IF shape = <<>> THEN {<<>>}
  ELSE {<< <<Head(shape)[1], v>> >> \o rest :
          v \in buildMockValue(Head(shape)[2], prompt, context, Head(shape)[1]),
          rest \in buildMockFields(Tail(shape), prompt, context)}

\* buildMockData(schema, prompt, input): the context is the serialized input
buildMockData(def, prompt, input) ==
  LET context == IF Truthy(input) THEN stableStringify(input).s ELSE <<>>
  IN buildMockValue(def, prompt, context, <<"r", "o", "o", "t">>)

\* ------------------------------------------------------------------------
\* State
\* ------------------------------------------------------------------------
Calls == {1, 2}

VARIABLES
  calls,         \* per call: arguments, position and locals of executeAI(Stream)
  sessionCache,  \* core/cache.ts sessionCache: fingerprint -> entry
  cacheWriter,   \* history: fingerprint -> the call that wrote the entry
  nClears,       \* history: number of clearSessionCache calls so far
  req1, req2,    \* two requests: req2 is a variation of req1
  key1, key2,    \* buildCacheKey of req1 and of req2, once computed
  normalizer,    \* one parseAndValidateResponse call: arguments and outcome
  mock,          \* mockProvider.execute called twice with the same arguments
  builder,       \* one zodToJsonExample call: the schema and the outcome
  hook,          \* one component using useAI: its state, refs and options
  streamHook     \* one component using useAIStream: its state and refs

vars == <<calls, sessionCache, cacheWriter, nClears, req1, req2, key1, key2,
          normalizer, mock, builder, hook, streamHook>>
engineVars == <<calls, sessionCache, cacheWriter, nClears>>
keyVars == <<req1, req2, key1, key2>>
studyVars == <<normalizer, mock, builder>>
hookVars == <<hook, streamHook>>

\* a function that has not been called
NotCalled == [called |-> FALSE]

\* a component that has not been mounted
Unmounted == [mounted |-> FALSE]

NoOutcome == [kind |-> "none"]

\* an AbortSignal nobody holds
NoSignal == [aborted |-> FALSE, handlers |-> {}]

\* no onChunk call yet
NoChunk == Undef

\* storeClears is history: the number of clears when the call last probed or
\* wrote the session cache.
\* fullText, deltas and streamDone are the locals of the running
\* provider.executeStream call; combined is the signal it was handed;
\* lastChunk is the argument of the latest onChunk call of the whole call
IdleCall ==
  [pc |-> "idle", args |-> Undef, cacheKey |-> Undef, attempt |-> 0,
   timer |-> FALSE, aborted |-> FALSE, signal |-> FALSE, invoked |-> 0,
   settled |-> NoOutcome, lastError |-> Undef, early |-> FALSE, reported |-> Undef,
   storeClears |-> 0, out |-> NoOutcome,
   fullText |-> <<>>, deltas |-> <<>>, streamDone |-> FALSE, lastChunk |-> NoChunk,
   combined |-> NoSignal]

\* ------------------------------------------------------------------------
\* Arguments of a call
\* ------------------------------------------------------------------------
defaultTemperature == 0

\* the fallback a test passes (tests/useAI.test.ts)
FallbackValue == 999

NoFallback == [kind |-> "undefined"]
\* a fallback function whose call throws
ThrowingFallback == [kind |-> "throws"]
Fallbacks == {NoFallback, [kind |-> "value", v |-> FallbackValue],
              [kind |-> "function", v |-> FallbackValue], ThrowingFallback}

Context12 == Obj(1, << << <<"a">>, Num(1)>>, << <<"b">>, Num(2)>> >>)
Context21 == Obj(1, << << <<"b">>, Num(2)>>, << <<"a">>, Num(1)>> >>)

\* temperature, maxTokens and providerOptions: the defaults and one change each
ModelOptions ==
  {[temperature |-> defaultTemperature, maxTokens |-> Undef, providerOptions |-> Undef],
   [temperature |-> 1, maxTokens |-> Undef, providerOptions |-> Undef],
   [temperature |-> defaultTemperature, maxTokens |-> Num(1), providerOptions |-> Undef],
   [temperature |-> defaultTemperature, maxTokens |-> Undef,
    providerOptions |-> Obj(2, << << <<"m">>, Num(1)>> >>)]}

\* the arguments of one executeAI call
ExecArgsOver(inputs, schemas, options, retries, fallbacks) ==
  {[mode |-> "exec", prompt |-> <<"p">>, input |-> i, schema |-> s,
    temperature |-> o.temperature, maxTokens |-> o.maxTokens,
    providerOptions |-> o.providerOptions, cache |-> cp, retry |-> r,
    fallback |-> fb, supportsStreaming |-> FALSE] :
     i \in inputs, s \in schemas, o \in options,
     cp \in {"session", "false"}, r \in retries, fb \in fallbacks}

DefaultOptions ==
  [temperature |-> defaultTemperature, maxTokens |-> Undef, providerOptions |-> Undef]

\* a single call: every retry count and fallback, the default options and
\* one change of them
ExecArgs ==
  ExecArgsOver({Undef, Num(0), Context12}, {ZodNumber, ZodImpossible},
               {DefaultOptions, [DefaultOptions EXCEPT !.maxTokens = Num(1)]},
               0..MaxRetry, Fallbacks)

\* two concurrent calls: the arguments that decide the fingerprint and the
\* cache policy (two schemas of the same Zod type and one context in two
\* insertion orders among them), without retry and without fallback
CacheArgs ==
  ExecArgsOver({Undef, Context12}, {ZodNumber, ZodNumberMin2},
               {DefaultOptions}, {0}, {NoFallback})
  \cup {a \in ExecArgsOver({Context21}, {ZodNumber}, {DefaultOptions}, {0},
                           {NoFallback}) : a.cache = "session"}

\* the arguments of one executeAIStream call; hasSignal: the caller passes
\* an AbortSignal; supportsStreaming and executeStream: what the provider
\* declares
StreamArgs ==
  {[mode |-> "stream", prompt |-> <<"p">>, input |-> Context12, schema |-> s,
    temperature |-> defaultTemperature, maxTokens |-> Undef,
    providerOptions |-> Undef, cache |-> "false", retry |-> r,
    fallback |-> fb, supportsStreaming |-> ss, executeStream |-> es,
    hasSignal |-> hs] :
     s \in {ZodNumber, ZodImpossible}, r \in 0..MaxRetry, fb \in Fallbacks,
     ss \in BOOLEAN, es \in BOOLEAN, hs \in BOOLEAN}

\* the text chunks a stream delivers: a digit or a blank
StreamDeltas == {<<"1">>, <<" ">>}

\* ------------------------------------------------------------------------
\* What a provider call can settle with
\* ------------------------------------------------------------------------
ReportedTokens == {Undef} \cup {Num(n) : n \in 0..MaxTok}

\* AIErrors the providers of the repository raise themselves
ProviderAIErrors ==
  {[code |-> "configuration", message |-> "API key is required", cause |-> Undef],
   [code |-> "provider_error", message |-> "Provider returned no data", cause |-> Undef],
   [code |-> "validation_error", message |-> "Provider returned invalid schema",
    cause |-> ZodError]}

ProviderOutcomes ==
  {[ok |-> TRUE, data |-> d, tokens |-> t] : d \in Data, t \in ReportedTokens}
  \cup {[ok |-> FALSE, ai |-> TRUE, code |-> e.code, message |-> e.message,
           cause |-> e.cause] : e \in ProviderAIErrors}
  \cup {[ok |-> FALSE, ai |-> FALSE, name |-> n] : n \in {"AbortError"}}

\* ------------------------------------------------------------------------
\* One attempt (attemptExecution of executeAI and of executeAIStream)
\* ------------------------------------------------------------------------
Messages(mode) ==
  IF mode = "exec"
  THEN [timeout |-> "AI call timed out", invalid |-> "Provider returned invalid shape",
        failed |-> "Provider execution failed", exhausted |-> "AI execution failed"]
  ELSE [timeout |-> "Stream timed out", invalid |-> "Stream returned invalid schema",
        failed |-> "Stream execution failed", exhausted |-> "Stream failed after retries"]

\* the catch block testing `instanceof AIError` before `signal.aborted`
catchBlockAIErrorFirst(mode, aborted, error, at) ==
  IF error.ai THEN error
  ELSE IF aborted THEN AIError(Messages(mode).timeout, "timeout", Undef, at)
  ELSE AIError(Messages(mode).failed, "provider_error", error, at)

\* the catch block: what the attempt throws for the failure `error`
catchBlock(mode, aborted, error, at) ==
  IF aborted THEN AIError(Messages(mode).timeout, "timeout", Undef, at)
  ELSE IF error.ai THEN error
  ELSE AIError(Messages(mode).failed, "provider_error", error, at)

\* the validation error without the diagnostic of safeParse
ValidationErrorNoCause(mode, diagnostic, at) ==
  AIError(Messages(mode).invalid, "validation_error", Undef, at)

\* new AIError("... invalid ...", "validation_error", validated.error)
ValidationError(mode, diagnostic, at) ==
  AIError(Messages(mode).invalid, "validation_error", diagnostic, at)

\* the exception the provider call rejected with
Thrown(o, at) ==
  IF o.ai THEN AIError(o.message, o.code, o.cause, at) ELSE RawError(o.name, at)

\* the body of attemptExecution from the point where the provider call has
\* settled with o: validation, token resolution, error classification
attemptExecution(a, aborted, o, at) ==
  IF o.ok /\ safeParse(a.schema, o.data)
  THEN [kind |-> "result",
        r |-> [data |-> o.data, tokens |-> resolveTokens(o.tokens, a.prompt, a.input),
               fromCache |-> FALSE]]
  ELSE LET error == IF o.ok
                    THEN ValidationError(a.mode, ZodError, at)
                    ELSE Thrown(o, at)
       IN [kind |-> "error", e |-> catchBlock(a.mode, aborted, error, at)]

\* combineAbortSignals that only listens for future aborts
combineAbortSignalsNoCheck(signals) ==
  [aborted |-> FALSE,
   handlers |-> {signals[i].name : i \in {j \in 1..Len(signals) : ~signals[j].aborted}}]

\* combineAbortSignals (AbortSignal.any, or the loop that replaces it): the
\* result is aborted at once if a source already is; otherwise it listens to
\* the sources (in the loop: to those before the first aborted one)
combineAbortSignals(signals) ==
  LET already == {i \in 1..Len(signals) : signals[i].aborted}
      first == CHOOSE i \in already : \A j \in already : i <= j
  IN IF already # {}
     THEN [aborted |-> TRUE, handlers |-> {signals[i].name : i \in 1..(first - 1)}]
     ELSE [aborted |-> FALSE, handlers |-> {signals[i].name : i \in 1..Len(signals)}]

\* the abort event of the source `name` reaches the signal: the handler
\* removes every listener and aborts it
SourceAborts(sig, name) ==
  IF name \in sig.handlers THEN [aborted |-> TRUE, handlers |-> {}] ELSE sig

\* the signal handed to the provider: controller.signal, combined with the
\* caller's signal in executeAIStream when there is one
ProviderSignal(a, callerAborted) ==
  IF a.mode = "stream" /\ a.hasSignal
  THEN combineAbortSignals(<<[name |-> "signal", aborted |-> callerAborted],
                             [name |-> "controller", aborted |-> FALSE]>>)
  ELSE [aborted |-> FALSE, handlers |-> {"controller"}]

\* an attempt that reuses the controller of the previous attempt
StartAttemptSameController(rec, n) ==
  [rec EXCEPT !.pc = "awaiting", !.attempt = n, !.timer = TRUE,
              !.invoked = @ + 1, !.settled = NoOutcome,
              !.fullText = <<>>, !.deltas = <<>>, !.streamDone = FALSE,
              !.combined = ProviderSignal(rec.args, rec.signal)]

\* new AbortController, setTimeout(abort, timeoutMs), provider.execute(...)
\* or provider.executeStream(...), which starts with fullText = ""
StartAttempt(rec, n) ==
  [rec EXCEPT !.pc = "awaiting", !.attempt = n, !.timer = TRUE, !.aborted = FALSE,
              !.invoked = @ + 1, !.settled = NoOutcome,
              !.fullText = <<>>, !.deltas = <<>>, !.streamDone = FALSE,
              !.combined = ProviderSignal(rec.args, rec.signal)]

\* String(lastError) of an exception that is not an AIError
StringOf(error) == error.name

\* after the retry loop, raising a new error instead of the last one
AfterLoopWrapsError(rec) ==
  LET a == rec.args
      lastError == rec.lastError
  IN IF a.fallback = ThrowingFallback
     THEN [kind |-> "error", e |-> RawError("Error", rec.attempt)]
     ELSE IF a.fallback # NoFallback
     THEN [kind |-> "result",
           r |-> [data |-> a.fallback.v, tokens |-> 0, fromCache |-> FALSE,
                  usedFallback |-> TRUE,
                  fallbackReason |-> IF lastError.ai THEN lastError.message
                                     ELSE StringOf(lastError)]]
     ELSE [kind |-> "error",
           e |-> AIError(Messages(a.mode).exhausted, "provider_error", lastError,
                         rec.attempt)]

\* after the retry loop: the fallback (a fallback function is called outside
\* any try block, so what it throws leaves the engine unchanged), or the last
\* error re-raised
AfterLoop(rec) ==
  LET a == rec.args
      lastError == rec.lastError
  IN IF a.fallback = ThrowingFallback
     THEN [kind |-> "error", e |-> RawError("Error", rec.attempt)]
     ELSE IF a.fallback # NoFallback
     THEN [kind |-> "result",
           r |-> [data |-> a.fallback.v, tokens |-> 0, fromCache |-> FALSE,
                  usedFallback |-> TRUE,
                  fallbackReason |-> IF lastError.ai THEN lastError.message
                                     ELSE StringOf(lastError)]]
     ELSE IF lastError.ai THEN [kind |-> "error", e |-> lastError]
     ELSE [kind |-> "error",
           e |-> AIError(Messages(a.mode).exhausted, "provider_error", lastError,
                         rec.attempt)]

Return(rec, outcome) ==
  [rec EXCEPT !.pc = "done", !.out = outcome]

\* executeAI on a cache hit: { ...cached, tokens: 0, fromCache: true }
CacheHitKeepsTokens(cached) == [cached EXCEPT !.fromCache = TRUE]

CacheHitResult(cached) == [cached EXCEPT !.tokens = 0, !.fromCache = TRUE]

\* if (cacheKey && cachePolicy === "session")
NeverSession(cacheKey, cachePolicy) == FALSE

UsesSessionCache(cacheKey, cachePolicy) ==
  cacheKey # Undef /\ cacheKey.s # <<>> /\ cachePolicy = "session"

\* a loop that does not look at the caller's signal
NeverAborted(a, signal) == FALSE

\* a loop that stops after every failure
AlwaysAborted(a, signal) == TRUE

\* signal?.aborted
CallerAborted(a, signal) == a.hasSignal /\ signal

\* the loop has made its last attempt: attempt === retry
ExhaustedOneLate(attempt, retry) == attempt >= retry + 1

Exhausted(attempt, retry) == attempt = retry

\* lastError = error
KeepFirstError(lastError, error) == IF lastError = Undef THEN error ELSE lastError

RecordError(lastError, error) == error

\* fullText = chunk
AccumulateLatest(fullText, chunk) == chunk

\* fullText += chunk
Accumulate(fullText, chunk) == fullText \o chunk

\* ------------------------------------------------------------------------
\* Actions
\* ------------------------------------------------------------------------
\* executeAI up to its first suspension: the cache probe, then either the
\* cached result or the first attempt
\* a probe that does not look at the cache policy
ProbeAnyPolicy(cache, a) == getFromSessionCache(cache, buildCacheKey(a).s)

\* the cache probe of executeAI: the entry of the fingerprint under policy
\* "session", nothing under policy false
Probe(cache, a) ==
  IF a.cache # "false" /\ UsesSessionCache(buildCacheKey(a), a.cache)
  THEN getFromSessionCache(cache, buildCacheKey(a).s)
  ELSE Undef

\* the call record after executeAI(a) has run to its first suspension
executeAIStart(rec, a, cached, clears) ==
  LET cacheKey == IF a.cache # "false" THEN buildCacheKey(a) ELSE Undef
      started == [rec EXCEPT !.args = a, !.cacheKey = cacheKey,
                             !.storeClears =
                                IF UsesSessionCache(cacheKey, a.cache)
                                THEN clears ELSE @]
  IN IF cached # Undef
     THEN Return(started, [kind |-> "result", r |-> CacheHitResult(cached)])
     ELSE StartAttempt(started, 0)

executeAI(c, a) ==
  /\ calls[c].pc = "idle"
  /\ ~calls[c].signal
  /\ a.mode = "exec"
  /\ calls' = [calls EXCEPT ![c] =
                 executeAIStart(@, a, Probe(sessionCache, a), nClears)]
  /\ UNCHANGED <<sessionCache, cacheWriter, nClears, keyVars, studyVars, hookVars>>

\* a provider taken to stream whatever it declares
AnyProviderStreams(provider) == TRUE

\* !(!provider.supportsStreaming || !provider.executeStream)
SupportsStreaming(provider) == provider.supportsStreaming /\ provider.executeStream

\* executeAIStream up to its first suspension
\* a stream answered from a cache without a provider call
executeAIStreamCached(rec, a) ==
  Return([rec EXCEPT !.args = a],
         [kind |-> "result",
          r |-> [data |-> FallbackValue, tokens |-> 0, fromCache |-> TRUE]])

executeAIStreamStart(rec, a) ==
  IF ~SupportsStreaming(a)
  THEN Return([rec EXCEPT !.args = a],
              [kind |-> "error",
               e |-> AIError("Provider does not support streaming",
                             "configuration", Undef, 0)])
  ELSE StartAttempt([rec EXCEPT !.args = a], 0)

executeAIStream(c, a) ==
  /\ calls[c].pc = "idle"
  /\ a.mode = "stream"
  /\ calls[c].signal => a.hasSignal
  /\ calls' = [calls EXCEPT ![c] = executeAIStreamStart(@, a)]
  /\ UNCHANGED <<sessionCache, cacheWriter, nClears, keyVars, studyVars, hookVars>>

\* the deadline timer of the running attempt fires: controller.abort()
TimerFires(c) ==
  /\ calls[c].pc = "awaiting"
  /\ calls[c].timer
  /\ calls' = [calls EXCEPT ![c].timer = FALSE, ![c].aborted = TRUE,
                           ![c].combined = SourceAborts(@, "controller")]
  /\ UNCHANGED <<sessionCache, cacheWriter, nClears, keyVars, studyVars, hookVars>>

\* the call record after the caller's signal was aborted
SignalAborts(rec) ==
  [rec EXCEPT !.signal = TRUE, !.combined = SourceAborts(@, "signal")]

\* the caller aborts the signal it passed to executeAIStream
UserAbort(c) ==
  /\ \/ calls[c].pc = "idle"
     \/ /\ calls[c].pc \in {"awaiting", "settled", "delay"}
        /\ calls[c].args.mode = "stream"
        /\ calls[c].args.hasSignal
  /\ ~calls[c].signal
  /\ calls' = [calls EXCEPT ![c] = SignalAborts(@)]
  /\ UNCHANGED <<sessionCache, cacheWriter, nClears, keyVars, studyVars, hookVars>>

\* the call record after one more chunk: fullText grows and onChunk is called
ChunkDelivered(rec, chunk) ==
  [rec EXCEPT !.fullText = Accumulate(rec.fullText, chunk),
              !.deltas = Append(@, chunk),
              !.lastChunk = [text |-> Accumulate(rec.fullText, chunk),
                             delta |-> chunk, done |-> FALSE]]

\* for await (const chunk of result.textStream): one more chunk arrives
ChunkArrives(c, chunk) ==
  /\ calls[c].pc = "awaiting"
  /\ calls[c].args.mode = "stream"
  /\ ~calls[c].streamDone
  /\ Len(calls[c].deltas) < MaxChunks
  /\ calls' = [calls EXCEPT ![c] = ChunkDelivered(@, chunk)]
  /\ UNCHANGED <<sessionCache, cacheWriter, nClears, keyVars, studyVars, hookVars>>

\* the call record after the final chunk was passed to onChunk
FinalChunkDelivered(rec) ==
  [rec EXCEPT !.streamDone = TRUE,
              !.lastChunk = [text |-> rec.fullText, delta |-> <<>>, done |-> TRUE]]

\* the text stream ends: the final chunk is passed to onChunk
StreamEnds(c) ==
  /\ calls[c].pc = "awaiting"
  /\ calls[c].args.mode = "stream"
  /\ ~calls[c].streamDone
  /\ calls' = [calls EXCEPT ![c] = FinalChunkDelivered(@)]
  /\ UNCHANGED <<sessionCache, cacheWriter, nClears, keyVars, studyVars, hookVars>>

\* what provider.executeStream can settle with: a missing API key is raised
\* before the stream is opened, any other exception at any time, and once
\* the stream has ended, the outcome of parseAndValidateStreamResponse on
\* the accumulated text
StreamSettles(rec, o, parsed) ==
  CASE o.ok -> rec.streamDone /\ parsed.ok /\ Num(o.data) = parsed.data
    [] ~o.ok /\ ~o.ai -> TRUE
    [] ~o.ok /\ o.ai /\ o.code = "configuration" ->
         rec.deltas = <<>> /\ ~rec.streamDone
    [] OTHER -> rec.streamDone /\ ~parsed.ok
                  /\ o.code = parsed.code /\ o.message = parsed.message
                  /\ o.cause = parsed.cause

StreamOutcome(rec, o) ==
  StreamSettles(rec, o, parseAndValidateStreamResponse(rec.fullText, rec.args.schema,
                                                       "Provider"))

\* the provider call settles with o and attemptExecution runs to its end
\* (cache write included); its promise is then settled
ProviderSettles(c, o) ==
  /\ calls[c].pc = "awaiting"
  /\ calls[c].args.mode = "stream" => StreamOutcome(calls[c], o)
  /\ LET rec == calls[c]
         a == rec.args
         res == attemptExecution(a, rec.aborted, o, rec.attempt)
         store == /\ res.kind = "result"
                  /\ a.mode = "exec"
                  /\ UsesSessionCache(rec.cacheKey, a.cache)
     IN /\ calls' = [calls EXCEPT ![c] =
              [rec EXCEPT !.pc = "settled", !.settled = res, !.timer = FALSE,
                          !.fullText = <<>>, !.deltas = <<>>, !.streamDone = FALSE,
                          !.combined = NoSignal,
                          !.early = @ \/ ~rec.aborted,
                          !.reported = IF res.kind = "result" THEN o.tokens ELSE Undef,
                          !.storeClears = IF store THEN nClears ELSE @]]
        /\ sessionCache' = IF store
                           THEN setSessionCache(sessionCache, rec.cacheKey.s, res.r)
                           ELSE sessionCache
        /\ cacheWriter' = IF store
                          THEN LastWriter(cacheWriter, rec.cacheKey.s, c)
                          ELSE cacheWriter
  /\ UNCHANGED <<nClears, keyVars, studyVars, hookVars>>

\* a loop that stores the fallback result under the fingerprint of the call
ResumeStoresFallback(c) ==
  /\ calls[c].pc = "settled"
  /\ LET rec == calls[c]
         a == rec.args
         failed == [rec EXCEPT !.lastError = RecordError(@, rec.settled.e)]
         stop == \/ a.mode = "stream" /\ CallerAborted(a, rec.signal)
                 \/ Exhausted(rec.attempt, a.retry)
         store == /\ rec.settled.kind = "error"
                  /\ stop
                  /\ AfterLoop(failed).kind = "result"
                  /\ a.mode = "exec"
                  /\ UsesSessionCache(rec.cacheKey, a.cache)
     IN /\ calls' = [calls EXCEPT ![c] =
              IF rec.settled.kind = "result" THEN Return(rec, rec.settled)
              ELSE IF stop THEN Return(failed, AfterLoop(failed))
              ELSE IF a.mode = "stream" THEN [failed EXCEPT !.pc = "delay"]
              ELSE StartAttempt(failed, rec.attempt + 1)]
        /\ sessionCache' = IF store
                           THEN setSessionCache(sessionCache, rec.cacheKey.s,
                                                AfterLoop(failed).r)
                           ELSE sessionCache
        /\ cacheWriter' = IF store
                          THEN LastWriter(cacheWriter, rec.cacheKey.s, c)
                          ELSE cacheWriter
  /\ UNCHANGED <<nClears, keyVars, studyVars, hookVars>>

\* the retry loop resumes after `await attemptExecution()`
Resume(c) ==
  /\ calls[c].pc = "settled"
  /\ LET rec == calls[c]
         a == rec.args
     IN IF rec.settled.kind = "result"
        THEN /\ calls' = [calls EXCEPT ![c] = Return(rec, rec.settled)]
        ELSE LET failed == [rec EXCEPT !.lastError = RecordError(@, rec.settled.e)]
                 stop == \/ a.mode = "stream" /\ CallerAborted(a, rec.signal)
                         \/ Exhausted(rec.attempt, a.retry)
             IN IF stop
                THEN /\ calls' = [calls EXCEPT ![c] = Return(failed, AfterLoop(failed))]
                ELSE /\ calls' = [calls EXCEPT ![c] =
                           IF a.mode = "stream" THEN [failed EXCEPT !.pc = "delay"]
                           ELSE StartAttempt(failed, rec.attempt + 1)]
  /\ UNCHANGED <<sessionCache, cacheWriter, nClears, keyVars, studyVars, hookVars>>

\* executeAIStream: the 500 ms pause before a retry is over
RetryDelayElapses(c) ==
  /\ calls[c].pc = "delay"
  /\ calls' = [calls EXCEPT ![c] = StartAttempt(calls[c], calls[c].attempt + 1)]
  /\ UNCHANGED <<sessionCache, cacheWriter, nClears, keyVars, studyVars, hookVars>>

\* a clear that leaves the entries in place
ClearedNothing(cache) == cache

\* sessionCache.clear()
Cleared(cache) == EmptyCache

clearSessionCache ==
  /\ nClears < MaxClears
  /\ sessionCache' = Cleared(sessionCache)
  /\ cacheWriter' = EmptyCache
  /\ nClears' = nClears + 1
  /\ UNCHANGED <<calls, keyVars, studyVars, hookVars>>

\* ------------------------------------------------------------------------
\* Specifications
\* ------------------------------------------------------------------------
NoRequest == Undef
NoKey == Undef

Init ==
  /\ calls = [c \in Calls |-> IdleCall]
  /\ sessionCache = EmptyCache
  /\ cacheWriter = EmptyCache
  /\ nClears = 0
  /\ req1 = NoRequest /\ req2 = NoRequest /\ key1 = NoKey /\ key2 = NoKey
  /\ normalizer = NotCalled /\ mock = NotCalled /\ builder = NotCalled
  /\ hook = Unmounted /\ streamHook = Unmounted

\* concurrent executeAI calls sharing the session cache
Next ==
  \/ \E c \in Calls : \E a \in CacheArgs : executeAI(c, a)
  \/ \E c \in Calls : TimerFires(c)
  \/ \E c \in Calls : \E o \in ProviderOutcomes : ProviderSettles(c, o)
  \/ \E c \in Calls : Resume(c)
  \/ clearSessionCache

Spec == Init /\ [][Next]_vars

\* one call, of executeAI or of executeAIStream
NextCall ==
  \/ \E a \in ExecArgs : executeAI(1, a)
  \/ \E a \in StreamArgs : executeAIStream(1, a)
  \/ TimerFires(1)
  \/ UserAbort(1)
  \/ \E chunk \in StreamDeltas : ChunkArrives(1, chunk)
  \/ StreamEnds(1)
  \/ \E o \in ProviderOutcomes : ProviderSettles(1, o)
  \/ Resume(1)
  \/ RetryDelayElapses(1)
  \/ clearSessionCache

SpecCall == Init /\ [][NextCall]_vars

\* two calls of one task, context and schema, so of one fingerprint: with
\* and without the session cache, with and without a fallback
PairArgs ==
  ExecArgsOver({Context12}, {ZodNumber}, {DefaultOptions}, {0},
               {NoFallback, [kind |-> "value", v |-> FallbackValue]})

\* a stream of the same task, context and schema, without retry
PairStreamArgs ==
  {a \in StreamArgs : /\ a.schema = ZodNumber
                      /\ a.retry = 0
                      /\ SupportsStreaming(a)
                      /\ ~a.hasSignal
                      /\ a.fallback \in {NoFallback, [kind |-> "value", v |-> FallbackValue]}}

\* two calls that share the session cache: the first of executeAI, the
\* second of executeAI or of executeAIStream
NextPair ==
  \/ \E c \in Calls : \E a \in PairArgs : executeAI(c, a)
  \/ \E a \in PairStreamArgs : executeAIStream(2, a)
  \/ \E c \in Calls : TimerFires(c)
  \/ \E chunk \in StreamDeltas : ChunkArrives(2, chunk)
  \/ StreamEnds(2)
  \/ \E c \in Calls : \E o \in ProviderOutcomes : ProviderSettles(c, o)
  \/ \E c \in Calls : Resume(c)

SpecPair == Init /\ [][NextPair]_vars

\* ------------------------------------------------------------------------
\* Fingerprints of two requests
\* ------------------------------------------------------------------------
ContextKeys == {<<"a">>, <<"b">>}

\* the field lists of an object with at most two keys, in every insertion order
FieldSeqs(values) ==
  {<<>>}
  \cup {<< <<k, v>> >> : k \in ContextKeys, v \in values}
  \cup {<< <<k[1], v[1]>>, <<k[2], v[2]>> >> :
          k \in {kk \in ContextKeys \X ContextKeys : kk[1] # kk[2]},
          v \in values \X values}

\* an array that may be referenced from several fields
SharedArray == Arr(4, <<Num(1), Fn>>)

\* a reference back to the root object (a cycle); the root is in `seen`
\* whenever the reference is visited, so its fields are never read
RootRef == Obj(1, <<>>)

ContextLeaves ==
  {Undef, Null, Fn, Str(<<"x">>), SharedArray} \cup {Num(n) : n \in 1..MaxNum}

NestedObjects ==
  {Obj(id, fs) : id \in {2, 3}, fs \in FieldSeqs({Num(1), Fn, RootRef})}

\* two fields holding a node with the same identity hold the same object
WellFormed(fs) ==
  \A i, j \in 1..Len(fs) :
    (fs[i][2].t = "object" /\ fs[j][2].t = "object" /\ fs[i][2].id = fs[j][2].id)
      => fs[i][2] = fs[j][2]

Contexts ==
  {Obj(1, fs) : fs \in {g \in FieldSeqs(ContextLeaves \cup NestedObjects) : WellFormed(g)}}

SwapAt(fs, i) ==
  [j \in 1..Len(fs) |-> IF j = i THEN fs[i + 1] ELSE IF j = i + 1 THEN fs[i] ELSE fs[j]]

\* the same value with fields i and i+1 of the object `id` inserted in the
\* opposite order (wherever that object is referenced)
RECURSIVE Reordered(_, _, _)
Reordered(val, id, i) ==
  IF val.t = "object"
  THEN LET fs == IF val.id = id /\ i < Len(val.f) THEN SwapAt(val.f, i) ELSE val.f
       IN Obj(val.id, [j \in 1..Len(fs) |-> <<fs[j][1], Reordered(fs[j][2], id, i)>>])
  ELSE IF val.t = "array"
  THEN Arr(val.id, [j \in 1..Len(val.e) |-> Reordered(val.e[j], id, i)])
  ELSE val

OptionsOf(req) ==
  [temperature |-> req.temperature, maxTokens |-> req.maxTokens,
   providerOptions |-> req.providerOptions]

KeyRequests ==
  {[prompt |-> <<"p">>, input |-> i, schema |-> ZodNumber,
    temperature |-> DefaultOptions.temperature, maxTokens |-> DefaultOptions.maxTokens,
    providerOptions |-> DefaultOptions.providerOptions] : i \in Contexts}

InitKey ==
  /\ calls = [c \in Calls |-> IdleCall]
  /\ sessionCache = EmptyCache
  /\ cacheWriter = EmptyCache
  /\ nClears = 0
  /\ req1 \in KeyRequests
  /\ req2 = req1
  /\ key1 = NoKey /\ key2 = NoKey
  /\ normalizer = NotCalled /\ mock = NotCalled /\ builder = NotCalled
  /\ hook = Unmounted /\ streamHook = Unmounted

\* the caller builds the context of req2 in another insertion order
Reorder(id, i) ==
  /\ key2 = NoKey
  /\ Reordered(req2.input, id, i) # req2.input
  /\ req2' = [req2 EXCEPT !.input = Reordered(req2.input, id, i)]
  /\ UNCHANGED <<engineVars, studyVars, hookVars, req1, key1, key2>>

\* the caller gives req2 another temperature, maxTokens or providerOptions
ChangeOptions(o) ==
  /\ key2 = NoKey
  /\ o # OptionsOf(req2)
  /\ req2' = [req2 EXCEPT !.temperature = o.temperature, !.maxTokens = o.maxTokens,
                          !.providerOptions = o.providerOptions]
  /\ UNCHANGED <<engineVars, studyVars, hookVars, req1, key1, key2>>

\* executeAI computes the fingerprint of req1
BuildKey1 ==
  /\ key1 = NoKey
  /\ key1' = buildCacheKey(req1)
  /\ UNCHANGED <<engineVars, studyVars, hookVars, req1, req2, key2>>

\* executeAI computes the fingerprint of req2
BuildKey2 ==
  /\ key2 = NoKey
  /\ key2' = buildCacheKey(req2)
  /\ UNCHANGED <<engineVars, studyVars, hookVars, req1, req2, key1>>

NextKey ==
  \/ \E id \in 1..3 : \E i \in 1..2 : Reorder(id, i)
  \/ \E o \in ModelOptions : ChangeOptions(o)
  \/ BuildKey1
  \/ BuildKey2

SpecKey == InitKey /\ [][NextKey]_vars

\* ------------------------------------------------------------------------
\* One parseAndValidateResponse call
\* ------------------------------------------------------------------------
ResultKey == WrapperKeys[2]
ValueKey == WrapperKeys[9]
XKey == <<"x">>
IdKey == <<"i", "d">>

FortyTwo == <<"4", "2">>
Hello == <<"h", "e", "l", "l", "o">>
Note == <<"\n", "N", "o", "t", "e", ":", " ", "a", "p", "p", "r", "o", "x", "i",
          "m", "a", "t", "e">>

\* the JSON texts of the values a raw text holds; number literals are
\* within Data
ValueTexts == {Quote(FortyTwo), <<"1">>, <<"2">>, <<"n", "u", "l", "l">>}

MemberText(key, text) == Quote(key) \o <<":">> \o text

ObjectText1(key, text) == <<"{">> \o MemberText(key, text) \o <<"}">>

ObjectText2(k1, t1, k2, t2) ==
  <<"{">> \o MemberText(k1, t1) \o <<",", " ">> \o MemberText(k2, t2) \o <<"}">>

KeyPairs ==
  {<<ResultKey, XKey>>, <<XKey, ResultKey>>, <<DataKey, XKey>>, <<XKey, DataKey>>,
   <<ResultKey, DataKey>>, <<ValueKey, ResultKey>>, <<XKey, IdKey>>}

RawBodies ==
  {ObjectText1(k, t) : k \in {DataKey, ResultKey, ValueKey, XKey}, t \in ValueTexts}
  \cup {ObjectText2(kk[1], t1, kk[2], t2) :
          kk \in KeyPairs, t1 \in {Quote(FortyTwo), <<"1">>},
          t2 \in {Quote(Hello), <<"2">>}}
  \cup {ObjectText1(k1, ObjectText1(k2, Quote(FortyTwo))) :
          k1 \in {DataKey, XKey}, k2 \in {DataKey, XKey}}
  \cup {<<"[", "1", "]">>, <<"[", "1", ",", "2", "]">>, <<"{", "}">>,
        Hello, Quote(FortyTwo), <<"1">>, <<"2">>, <<"n", "u", "l", "l">>, <<>>,
        <<"{">>, <<"{">> \o Quote(DataKey) \o <<":">>}

RawPrefixes == {<<>>, <<" ", " ">>}

RawSuffixes == {<<>>, <<" ", " ">>, Note, <<" ", "N", "o", "t", "e">>, <<"\n">>}

\* what a provider hands to parseAndValidateResponse: the text of the
\* message, or a value that is no string (no content, or content the SDK
\* has already parsed)
RawContents ==
  {Str(p \o b \o s) : p \in RawPrefixes, b \in RawBodies, s \in RawSuffixes}
  \cup {Undef, Null, Num(1), Arr(0, <<Num(1)>>),
        Obj(0, << <<DataKey, Num(1)>> >>),
        Obj(0, << <<ResultKey, Num(2)>>, <<XKey, Str(Hello)>> >>)}

ZodObjectX == ZodObject(<< <<XKey, ZodString>> >>)
\* z.object({ data: z.string() })
ZodObjectData == ZodObject(<< <<DataKey, ZodString>> >>)
\* z.object({ data: z.number(), x: z.string() })
ZodObjectDataX == ZodObject(<< <<DataKey, ZodNumber>>, <<XKey, ZodString>> >>)
\* z.object({ data: z.object({ data: z.string() }) })
ZodObjectNested == ZodObject(<< <<DataKey, ZodObjectData>> >>)

NormalizerSchemas ==
  {ZodString, ZodNumber, ZodNumberMin2, ZodImpossible, ZodObjectX, ZodObjectData,
   ZodObjectDataX, ZodObjectNested}

\* the names the three providers pass
CallerNames == {"Groq", "OpenAI", "Local provider"}

\* the arguments of a call: every provider passes isPrimitiveSchema(schema)
NormalizerArgs ==
  {[called |-> FALSE, rawContent |-> r, schema |-> s,
    isPrimitive |-> isPrimitiveSchema(s), providerName |-> n] :
     r \in RawContents, s \in NormalizerSchemas, n \in CallerNames}

InitParse ==
  /\ calls = [c \in Calls |-> IdleCall]
  /\ sessionCache = EmptyCache
  /\ cacheWriter = EmptyCache
  /\ nClears = 0
  /\ req1 = NoRequest /\ req2 = NoRequest /\ key1 = NoKey /\ key2 = NoKey
  /\ normalizer \in NormalizerArgs
  /\ mock = NotCalled /\ builder = NotCalled
  /\ hook = Unmounted /\ streamHook = Unmounted

\* parseAndValidateResponse(rawContent, schema, isPrimitive, providerName)
Normalize ==
  /\ ~normalizer.called
  /\ normalizer' =
       [called |-> TRUE, rawContent |-> normalizer.rawContent,
        schema |-> normalizer.schema, isPrimitive |-> normalizer.isPrimitive,
        providerName |-> normalizer.providerName,
        candidate |-> CandidateValue(normalizer.rawContent, normalizer.schema,
                                     normalizer.isPrimitive),
        response |-> parseAndValidateResponse(normalizer.rawContent,
                                              normalizer.schema,
                                              normalizer.isPrimitive,
                                              normalizer.providerName)]
  /\ UNCHANGED <<engineVars, keyVars, hookVars, mock, builder>>

NextParse == Normalize

SpecParse == InitParse /\ [][NextParse]_vars

\* ------------------------------------------------------------------------
\* One zodToJsonExample call
\* ------------------------------------------------------------------------
Up == <<"u", "p">>
Down == <<"d", "o", "w", "n">>

\* the values a literal or a default holds
LiteralValues == {Str(Up), Num(1), Bool(FALSE), Null, BigInt(1)}

\* schemas of depth 0; a type name alone is a definition that has none of
\* the optional fields
LeafDefs ==
  {Def(n) : n \in {ZodStringName, ZodNumberName, ZodBooleanName, ZodNullName,
                   ZodUndefinedName, ZodLiteralName, ZodEnumName, ZodNativeEnumName,
                   ZodArrayName, ZodObjectName, ZodOptionalName, ZodNullableName,
                   ZodDefaultName, ZodUnionName, ZodTupleName, ZodRecordName,
                   ZodAnyName, ZodUnknownName, ZodDateName, ZodBigIntName}}
  \cup {DefLiteral(v) : v \in LiteralValues}
  \cup {DefEnum(vs) : vs \in {<<>>, <<Up>>, <<Up, Down>>, <<Down, Up, Hello>>}}
  \cup {DefUnion(<<>>), DefObject(<<>>)}

\* the schema trees of depth at most n: a schema of smaller depth in an
\* array, a wrapper, a union or an object
RECURSIVE DefsOfDepth(_)
DefsOfDepth(n) ==
  IF n = 0 THEN LeafDefs
  ELSE LET inner == DefsOfDepth(n - 1)
       IN inner
          \cup {DefArray(d) : d \in inner}
          \cup {DefInner(t, d) : t \in {ZodOptionalName, ZodNullableName}, d \in inner}
          \cup {DefDefault(v, Def(ZodStringName)) : v \in LiteralValues}
          \cup {[typeName |-> ZodDefaultName, innerType |-> d] : d \in inner}
          \cup {DefUnion(<<d, Def(ZodStringName)>>) : d \in inner}
          \cup {DefObject(<< <<XKey, d>> >>) : d \in inner}
          \cup {DefObject(<< <<IdKey, Def(ZodNumberName)>>, <<DataKey, d>> >>) :
                  d \in inner}

ExampleDefs == DefsOfDepth(MaxDepth)

InitExample ==
  /\ calls = [c \in Calls |-> IdleCall]
  /\ sessionCache = EmptyCache
  /\ cacheWriter = EmptyCache
  /\ nClears = 0
  /\ req1 = NoRequest /\ req2 = NoRequest /\ key1 = NoKey /\ key2 = NoKey
  /\ normalizer = NotCalled /\ mock = NotCalled
  /\ builder \in {[called |-> FALSE, def |-> d] : d \in ExampleDefs}
  /\ hook = Unmounted /\ streamHook = Unmounted

\* zodToJsonExample(schema): buildExample, then JSON.stringify
BuildExample ==
  /\ ~builder.called
  /\ builder' = [called |-> TRUE, def |-> builder.def,
                 example |-> buildExample(builder.def),
                 json |-> zodToJsonExample(builder.def)]
  /\ UNCHANGED <<engineVars, keyVars, hookVars, normalizer, mock>>

NextExample == BuildExample

SpecExample == InitExample /\ [][NextExample]_vars

\* ------------------------------------------------------------------------
\* Two mockProvider.execute calls with the same arguments
\* ------------------------------------------------------------------------
Spam == <<"s", "p", "a", "m">>
Great == <<"g", "r", "e", "a", "t">>
Feedback == <<"f", "e", "e", "d", "b", "a", "c", "k">>

Range(min, max) == <<[kind |-> "min", value |-> min], [kind |-> "max", value |-> max]>>

MockFieldDefs ==
  {<<<<"r", "e", "a", "s", "o", "n">>, Def(ZodStringName)>>,
   <<<<"u", "r", "g", "e", "n", "c", "y">>, DefNumber(<<>>)>>,
   <<<<"s", "a", "f", "e">>, Def(ZodBooleanName)>>,
   <<<<"s", "e", "n", "t", "i", "m", "e", "n", "t">>, DefEnum(<<Up, Down>>)>>,
   <<XKey, Def(ZodStringName)>>}

\* the schemas given to the mock provider: every type it has a case for, and
\* one it has none for
MockDefs ==
  {Def(ZodStringName), DefNumber(<<>>), DefNumber(Range(1, 2)), DefNumber(Range(2, 2)),
   Def(ZodBooleanName), Def(ZodNullName), DefLiteral(Num(1)), DefEnum(<<Up, Down>>),
   DefEnum(<<>>), DefArray(Def(ZodStringName)), DefArray(DefNumber(Range(1, 2))),
   Def(ZodArrayName), DefInner(ZodOptionalName, Def(ZodBooleanName)),
   DefInner(ZodNullableName, DefNumber(Range(1, 2))), DefDefault(Num(1), Def(ZodStringName)),
   DefUnion(<<Def(ZodStringName), DefNumber(<<>>)>>), DefUnion(<<>>), Def(ZodDateName)}
  \cup {DefObject(<<f>>) : f \in MockFieldDefs}
  \cup {DefObject(<<f, <<IdKey, DefNumber(Range(1, 2))>> >>) : f \in MockFieldDefs}

\* temperature is 0 in every call; the mock provider does not read it
MockArgs ==
  {[prompt |-> p, input |-> i, schema |-> d, temperature |-> defaultTemperature] :
     p \in {<<"p">>, Feedback}, i \in {Undef, Str(Spam), Str(Great)}, d \in MockDefs}

InitMock ==
  /\ calls = [c \in Calls |-> IdleCall]
  /\ sessionCache = EmptyCache
  /\ cacheWriter = EmptyCache
  /\ nClears = 0
  /\ req1 = NoRequest /\ req2 = NoRequest /\ key1 = NoKey /\ key2 = NoKey
  /\ normalizer = NotCalled /\ builder = NotCalled
  /\ mock \in {[called |-> FALSE, args |-> a, results |-> <<NoOutcome, NoOutcome>>] :
                 a \in MockArgs}
  /\ hook = Unmounted /\ streamHook = Unmounted

\* mockProvider.execute(args), for the i-th time: { data, tokens }
MockExecute(i) ==
  /\ "results" \in DOMAIN mock
  /\ mock.results[i] = NoOutcome
  /\ \E data \in buildMockData(mock.args.schema, mock.args.prompt, mock.args.input) :
       mock' = [called |-> TRUE, args |-> mock.args,
                results |-> [mock.results EXCEPT
                               ![i] = [kind |-> "result", data |-> data,
                                       tokens |-> deriveTokens(mock.args.prompt,
                                                               mock.args.input)]]]
  /\ UNCHANGED <<engineVars, keyVars, hookVars, normalizer, builder>>

NextMock == \E i \in 1..2 : MockExecute(i)

SpecMock == InitMock /\ [][NextMock]_vars

\* ------------------------------------------------------------------------
\* The useAI hook
\* ------------------------------------------------------------------------
CacheText(policy) ==
  IF policy = "session" THEN <<"s", "e", "s", "s", "i", "o", "n">>
  ELSE <<"f", "a", "l", "s", "e">>

\* options.timeoutMs ?? 15000: the options of the model leave timeoutMs out
defaultTimeoutKey == 15000

\* useAI buildOptionsKey: prompt, input, temperature, maxTokens, cache,
\* timeoutMs, retry and providerOptions joined by "::"; schema and fallback
\* are not part of it
buildOptionsKey(options) ==
  Str(Join(<<Str(options.prompt),
             stableStringify(options.input),
             Str(NumToChars(options.temperature)),
             IF options.maxTokens = Undef THEN Str(<<>>)
             ELSE Str(NumToChars(options.maxTokens.n)),
             Str(CacheText(options.cache)),
             Str(NumToChars(defaultTimeoutKey)),
             Str(NumToChars(options.retry)),
             stableStringify(options.providerOptions)>>,
           <<":", ":">>))

\* the options a component passes to useAI: one request, the same request
\* without the session cache, and a request with another input and a
\* fallback
HookOptions ==
  {o \in ExecArgsOver({Undef, Num(0)}, {ZodNumber}, {DefaultOptions}, {0},
                      {NoFallback, [kind |-> "value", v |-> FallbackValue]}) :
     \/ o.input = Undef /\ o.fallback = NoFallback
     \/ o.input = Num(0) /\ o.cache = "session" /\ o.fallback # NoFallback}

\* the state and the refs of useAI at the first render; running is the
\* call of the run in flight; ranKey is history: the options key of the run
\* whose outcome was applied last
FirstRender(options) ==
  [mounted |-> TRUE, options |-> options, lastKey |-> Str(<<>>),
   isRunning |-> FALSE, running |-> 0, runs |-> 0,
   data |-> Undef, error |-> Undef, loading |-> TRUE, tokens |-> Undef,
   fromCache |-> Undef, usedFallback |-> Undef, fallbackReason |-> Undef,
   ranKey |-> Undef]

\* the catch block of run: setError(aiError); setData(undefined)
Rejected(h, err) ==
  [h EXCEPT !.error = IF err.ai THEN err
                      ELSE AIError("Unknown error", "provider_error", err, 0),
            !.data = Undef]

\* the statements of run after `await executeAI(...)` resolved with r
Resolved(h, r) ==
  [h EXCEPT !.data = Num(r.data),
            !.tokens = Num(r.tokens),
            !.fromCache = Bool(r.fromCache),
            !.usedFallback = IF Has(r, "usedFallback") THEN Bool(TRUE) ELSE Undef,
            !.fallbackReason = IF Has(r, "fallbackReason")
                               THEN [t |-> "string", text |-> r.fallbackReason]
                               ELSE Undef]

\* run() from the hook state h: nothing while a run is in flight; otherwise
\* isRunning, loading and error are set and executeAI is called with
\* optionsRef.current, up to its first suspension
run(h) ==
  /\ h.isRunning \/ h.runs < Cardinality(Calls)
  /\ IF h.isRunning
     THEN hook' = h /\ calls' = calls
     ELSE /\ hook' = [h EXCEPT !.isRunning = TRUE, !.loading = TRUE,
                               !.error = Undef, !.running = h.runs + 1,
                               !.runs = h.runs + 1]
          /\ calls' = [calls EXCEPT ![h.runs + 1] =
                         executeAIStart(@, h.options, Probe(sessionCache, h.options),
                                        nClears)]
  /\ UNCHANGED <<sessionCache, cacheWriter, nClears, keyVars, studyVars, streamHook>>

\* the effect of useAI after a render with the options of h
runIfKeyChanged(h) ==
  IF buildOptionsKey(h.options) # h.lastKey
  THEN run([h EXCEPT !.lastKey = buildOptionsKey(h.options)])
  ELSE /\ hook' = h
       /\ UNCHANGED <<engineVars, keyVars, studyVars, streamHook>>

\* the component mounts: first render and effect
useAIMount(options) ==
  /\ ~hook.mounted
  /\ runIfKeyChanged(FirstRender(options))

\* the component renders again with other options: optionsRef.current is
\* set during the render, the effect runs after it
useAIRender(options) ==
  /\ hook.mounted
  /\ options # hook.options
  /\ runIfKeyChanged([hook EXCEPT !.options = options])

\* the component calls refresh
useAIRefresh ==
  /\ hook.mounted
  /\ run(hook)

\* run resumes after `await executeAI(...)`: the result or the error is
\* applied, then the finally block
useAISettles ==
  /\ hook.mounted
  /\ hook.isRunning
  /\ calls[hook.running].pc = "done"
  /\ LET out == calls[hook.running].out
         applied == IF out.kind = "result" THEN Resolved(hook, out.r)
                    ELSE Rejected(hook, out.e)
     IN hook' = [applied EXCEPT !.loading = FALSE, !.isRunning = FALSE,
                                !.ranKey = buildOptionsKey(calls[hook.running].args)]
  /\ UNCHANGED <<engineVars, keyVars, studyVars, streamHook>>

NextHook ==
  \/ \E options \in HookOptions : useAIMount(options)
  \/ \E options \in HookOptions : useAIRender(options)
  \/ useAIRefresh
  \/ useAISettles
  \/ \E c \in Calls : TimerFires(c)
  \/ \E c \in Calls : \E o \in ProviderOutcomes : ProviderSettles(c, o)
  \/ \E c \in Calls : Resume(c)

SpecHook == Init /\ [][NextHook]_vars

\* ------------------------------------------------------------------------
\* The useAIStream hook
\* ------------------------------------------------------------------------
\* the options of the component: a streaming provider, no retry, with or
\* without a fallback value; start passes the controller's signal
StreamHookOptions ==
  {a \in StreamArgs : /\ a.schema = ZodNumber
                      /\ a.retry = 0
                      /\ SupportsStreaming(a)
                      /\ a.hasSignal
                      /\ a.fallback \in {NoFallback, [kind |-> "value", v |-> FallbackValue]}}

\* what the provider's executeStream settles with: as for the engine, with
\* the token usage left to the estimate
StreamHookOutcomes == {o \in ProviderOutcomes : o.ok => o.tokens = Undef}

\* the chunks of the streams the hook starts
StreamHookDeltas == {<<"1">>}

\* the state and the refs of useAIStream at the first render; current is
\* the call that holds abortControllerRef.current (0: null), pending the
\* calls whose start() still awaits executeAIStream. History: writer is the
\* call whose closure changed the state last, stopped the calls abort() was
\* called on while they were pending, doneBy the calls whose closure set done
FirstStreamRender(options, manual) ==
  [mounted |-> TRUE, options |-> options, manual |-> manual, prevManual |-> Undef,
   current |-> 0, starts |-> 0, pending |-> {},
   data |-> Undef, text |-> <<>>, isStreaming |-> FALSE, done |-> FALSE,
   loading |-> ~manual, error |-> Undef, cost |-> Undef,
   writer |-> 0, stopped |-> {}, doneBy |-> {}]

\* what the component sees of the hook
Exposed(h) == <<h.data, h.text, h.isStreaming, h.done, h.loading, h.error, h.cost>>

\* the state after a closure of call c made it `new`
WrittenBy(h, new, c) ==
  IF Exposed(new) # Exposed(h) THEN [new EXCEPT !.writer = c] ELSE new

\* handleChunk of the start() that made call c
handleChunk(h, c, chunk) ==
  WrittenBy(h, [h EXCEPT !.text = chunk.text,
                         !.isStreaming = IF chunk.done THEN FALSE ELSE @], c)

\* start() of call c after `await executeAIStream(...)` resolved with r
StreamResolved(h, c, r) ==
  WrittenBy(h, [h EXCEPT !.data = Num(r.data), !.cost = Num(r.tokens),
                         !.done = TRUE, !.isStreaming = FALSE, !.loading = FALSE,
                         !.doneBy = @ \cup {c}], c)

\* the catch block of start() of call c; currentAborted is
\* abortControllerRef.current?.signal.aborted
StreamRejected(h, c, err, currentAborted) ==
  WrittenBy(h, [h EXCEPT !.isStreaming = FALSE, !.loading = FALSE,
                         !.error = IF err.ai THEN err
                                   ELSE IF currentAborted
                                   THEN AIError("Stream aborted", "timeout", Undef, 0)
                                   ELSE AIError("Stream failed", "provider_error", err, 0)],
            c)

\* start() from the hook state h: the controller of the existing stream is
\* aborted, a new one is made, the state is reset and executeAIStream is
\* called with the new signal, up to its first suspension
start(h) ==
  /\ h.starts < Cardinality(Calls)
  /\ LET c == h.starts + 1
         opts == h.options
     IN /\ streamHook' = [h EXCEPT !.current = c, !.starts = c,
                                   !.pending = @ \cup {c},
                                   !.data = Undef, !.text = <<>>,
                                   !.isStreaming = TRUE, !.done = FALSE,
                                   !.loading = TRUE, !.error = Undef,
                                   !.cost = Undef, !.writer = c]
        /\ calls' = [d \in Calls |->
                       IF d = c THEN executeAIStreamStart(calls[d], opts)
                       ELSE IF d = h.current THEN SignalAborts(calls[d])
                       ELSE calls[d]]
  /\ UNCHANGED <<sessionCache, cacheWriter, nClears, keyVars, studyVars, hook>>

\* the auto-start effect after a render of h
autoStart(h) ==
  LET wasManual == h.prevManual
      seen == [h EXCEPT !.prevManual = Bool(h.manual)]
  IN IF ~h.manual /\ (wasManual = Bool(TRUE) \/ wasManual = Undef)
     THEN start(seen)
     ELSE /\ streamHook' = seen
          /\ UNCHANGED <<engineVars, keyVars, studyVars, hook>>

\* the component mounts: first render and effects
useAIStreamMount(options, manual) ==
  /\ ~streamHook.mounted
  /\ autoStart(FirstStreamRender(options, manual))

\* the component renders again with the other value of options.manual
useAIStreamRender ==
  /\ streamHook.mounted
  /\ autoStart([streamHook EXCEPT !.manual = ~@])

\* the component calls start (or refresh)
useAIStreamStart ==
  /\ streamHook.mounted
  /\ start(streamHook)

\* the component calls abort: abortControllerRef.current?.abort();
\* setIsStreaming(false)
useAIStreamAbort ==
  /\ streamHook.mounted
  /\ streamHook.current # 0
  /\ ~calls[streamHook.current].signal
  /\ streamHook' = [streamHook EXCEPT
                      !.isStreaming = FALSE,
                      !.stopped = @ \cup ({streamHook.current} \cap streamHook.pending)]
  /\ calls' = [calls EXCEPT ![streamHook.current] = SignalAborts(@)]
  /\ UNCHANGED <<sessionCache, cacheWriter, nClears, keyVars, studyVars, hook>>

\* one more chunk of the stream of call c arrives and handleChunk runs
useAIStreamChunk(c, chunk) ==
  /\ streamHook.mounted
  /\ c \in streamHook.pending
  /\ calls[c].pc = "awaiting"
  /\ ~calls[c].streamDone
  /\ Len(calls[c].deltas) < MaxChunks
  /\ calls' = [calls EXCEPT ![c] = ChunkDelivered(@, chunk)]
  /\ streamHook' = handleChunk(streamHook, c, ChunkDelivered(calls[c], chunk).lastChunk)
  /\ UNCHANGED <<sessionCache, cacheWriter, nClears, keyVars, studyVars, hook>>

\* the stream of call c ends and handleChunk runs for the final chunk
useAIStreamEnds(c) ==
  /\ streamHook.mounted
  /\ c \in streamHook.pending
  /\ calls[c].pc = "awaiting"
  /\ ~calls[c].streamDone
  /\ calls' = [calls EXCEPT ![c] = FinalChunkDelivered(@)]
  /\ streamHook' = handleChunk(streamHook, c, FinalChunkDelivered(calls[c]).lastChunk)
  /\ UNCHANGED <<sessionCache, cacheWriter, nClears, keyVars, studyVars, hook>>

\* start() of call c resumes after `await executeAIStream(...)`
useAIStreamSettles(c) ==
  /\ streamHook.mounted
  /\ c \in streamHook.pending
  /\ calls[c].pc = "done"
  /\ LET out == calls[c].out
         h == [streamHook EXCEPT !.pending = @ \ {c}]
     IN streamHook' = IF out.kind = "result" THEN StreamResolved(h, c, out.r)
                      ELSE StreamRejected(h, c, out.e, calls[h.current].signal)
  /\ UNCHANGED <<engineVars, keyVars, studyVars, hook>>

NextStreamHook ==
  \/ \E options \in StreamHookOptions : \E manual \in BOOLEAN :
       useAIStreamMount(options, manual)
  \/ useAIStreamRender
  \/ useAIStreamStart
  \/ useAIStreamAbort
  \/ \E c \in Calls : \E chunk \in StreamHookDeltas : useAIStreamChunk(c, chunk)
  \/ \E c \in Calls : useAIStreamEnds(c)
  \/ \E c \in Calls : useAIStreamSettles(c)
  \/ \E c \in Calls : TimerFires(c)
  \/ \E c \in Calls : \E o \in StreamHookOutcomes : ProviderSettles(c, o)
  \/ \E c \in Calls : Resume(c)

SpecStreamHook == Init /\ [][NextStreamHook]_vars

\* ------------------------------------------------------------------------
\* Properties
\* ------------------------------------------------------------------------
Started(c) == calls[c].pc = "idle" /\ calls'[c].pc # "idle"

Done(c) == calls[c].pc = "done"

IsResult(c) == Done(c) /\ calls[c].out.kind = "result"

IsError(c) == Done(c) /\ calls[c].out.kind = "error"

UsedFallback(r) == "usedFallback" \in DOMAIN r

\* the call made an attempt that succeeded and validated, under policy "session"
StoredFresh(d) ==
  /\ Done(d)
  /\ calls[d].args.mode = "exec"
  /\ calls[d].args.cache = "session"
  /\ calls[d].settled.kind = "result"

\* C1: a call with cache policy "session" that finds an entry for its
\* fingerprint returns that entry's data with tokens = 0 and fromCache = true,
\* and the provider is not invoked during the call.
C1_CacheHit ==
  [][\A c \in Calls :
       (/\ Started(c)
        /\ calls'[c].args.cache = "session"
        /\ HasEntry(sessionCache, calls'[c].cacheKey.s))
       => /\ calls'[c].pc = "done"
          /\ calls'[c].out.kind = "result"
          /\ calls'[c].out.r.data = sessionCache[calls'[c].cacheKey.s].data
          /\ calls'[c].out.r.tokens = 0
          /\ calls'[c].out.r.fromCache = TRUE
          /\ calls'[c].invoked = 0
          /\ sessionCache' = sessionCache]_vars

C1_Witness ==
  \E c \in Calls :
    /\ IsResult(c) /\ calls[c].out.r.fromCache /\ calls[c].invoked = 0
    /\ HasEntry(sessionCache, calls[c].cacheKey.s)
    /\ sessionCache[calls[c].cacheKey.s].tokens > 0

\* the second of two consecutive calls with the same fingerprint starts: the
\* first one, d, has returned a fresh success and the cache was not cleared
SecondOfTwo(c, d) ==
  /\ c # d
  /\ Started(c)
  /\ calls'[c].args.cache = "session"
  /\ StoredFresh(d)
  /\ calls[d].cacheKey = calls'[c].cacheKey
  /\ calls[d].storeClears = nClears

SecondIsHit(c, d) ==
  /\ calls[d].out.r.fromCache = FALSE
  /\ calls'[c].pc = "done"
  /\ calls'[c].out.kind = "result"
  /\ calls'[c].out.r.fromCache = TRUE
  /\ calls'[c].out.r.tokens = 0
  /\ calls'[c].out.r.data = calls[d].out.r.data

\* C2 (as stated): of two consecutive calls with the same fingerprint and
\* policy "session", the first has fromCache = false and tokens > 0, the
\* second fromCache = true, tokens = 0 and the same data, whatever token
\* count the provider reports.
C2_Original ==
  [][\A c, d \in Calls :
       SecondOfTwo(c, d) => (calls[d].out.r.tokens > 0 /\ SecondIsHit(c, d))]_vars

\* C2 (amended): as above, but the first result's tokens are the count the
\* provider reported, so they are > 0 unless the provider reported 0.
C2_ConsecutiveCalls ==
  [][\A c, d \in Calls :
       SecondOfTwo(c, d) =>
         /\ calls[d].out.r.tokens > 0 \/ calls[d].reported = Num(0)
         /\ SecondIsHit(c, d)]_vars

C2_Witness ==
  \E c, d \in Calls :
    /\ c # d /\ StoredFresh(d) /\ calls[d].reported = Num(0)
    /\ IsResult(c) /\ calls[c].out.r.fromCache
    /\ calls[c].cacheKey = calls[d].cacheKey
    /\ calls[c].out.r.data = calls[d].out.r.data

\* C3: a call that misses the cache invokes provider.execute at most
\* retry + 1 times, never again after an attempt that succeeded and
\* validated, and exactly retry + 1 times when every attempt failed.
C3_AttemptCount ==
  /\ [](\A c \in Calls :
          calls[c].pc # "idle" /\ calls[c].args.mode = "exec" =>
            /\ calls[c].invoked <= calls[c].args.retry + 1
            /\ (Done(c) /\ calls[c].settled.kind = "error")
                 => calls[c].invoked = calls[c].args.retry + 1)
  /\ [][\A c \in Calls :
          calls[c].settled.kind = "result" => calls'[c].invoked = calls[c].invoked]_vars

C3_Witness ==
  \E c \in Calls :
    /\ Done(c) /\ calls[c].args.mode = "exec" /\ calls[c].args.retry >= 1
    /\ calls[c].settled.kind = "error"
    /\ calls[c].invoked = calls[c].args.retry + 1

\* C4: in executeAI and executeAIStream, an attempt that fails after its
\* deadline timer has fired records an error of kind timeout, whatever the
\* provider or the validation raised.
C4_TimeoutReclassified ==
  [][\A c \in Calls :
       (/\ calls[c].pc = "awaiting"
        /\ calls[c].aborted
        /\ calls'[c].pc = "settled"
        /\ calls'[c].settled.kind = "error")
       => calls'[c].settled.e.code = "timeout"]_vars

C4_Witness ==
  \E c \in Calls :
    /\ calls[c].pc = "settled" /\ calls[c].args.mode = "stream" /\ calls[c].aborted
    /\ calls[c].settled.kind = "error" /\ calls[c].settled.e.code = "timeout"

\* C5: when no attempt's provider call settles before its deadline and no
\* fallback is given, executeAI ends by raising an error of kind timeout,
\* whether or not the provider reacts to the cancellation signal.
C5_TimeoutRaised ==
  \A c \in Calls :
    (/\ Done(c)
     /\ calls[c].args.mode = "exec"
     /\ calls[c].args.fallback = NoFallback
     /\ calls[c].invoked >= 1
     /\ ~calls[c].early)
    => (calls[c].out.kind = "error" /\ calls[c].out.e.code = "timeout")

\* C6: when all retry + 1 attempts fail and a fallback was supplied (a value,
\* or a function that returns one), the call returns the fallback value with
\* usedFallback = true, fromCache = false, tokens = 0 and fallbackReason = the
\* non-empty message of the error of the final attempt.
C6_Fallback ==
  \A c \in Calls :
    (/\ Done(c)
     /\ calls[c].args.fallback \notin {NoFallback, ThrowingFallback}
     /\ calls[c].invoked = calls[c].args.retry + 1
     /\ calls[c].settled.kind = "error")
    => /\ calls[c].out.kind = "result"
       /\ UsedFallback(calls[c].out.r)
       /\ calls[c].out.r.usedFallback = TRUE
       /\ calls[c].out.r.data = calls[c].args.fallback.v
       /\ calls[c].out.r.fromCache = FALSE
       /\ calls[c].out.r.tokens = 0
       /\ calls[c].out.r.fallbackReason = calls[c].settled.e.message
       /\ calls[c].out.r.fallbackReason # ""
       /\ calls[c].settled.e.at = calls[c].args.retry

C6_Witness ==
  \E c \in Calls :
    /\ IsResult(c) /\ UsedFallback(calls[c].out.r)
    /\ calls[c].args.fallback.kind = "function"
    /\ calls[c].args.retry >= 1
    /\ calls[c].invoked = calls[c].args.retry + 1
    /\ calls[c].out.r.fallbackReason = Messages(calls[c].args.mode).invalid

\* C7: when the attempts fail and no fallback was supplied, the call raises
\* the error recorded for the last attempt made (that very error object) and
\* returns no result.
C7_LastErrorRaised ==
  \A c \in Calls :
    (/\ Done(c)
     /\ calls[c].args.fallback = NoFallback
     /\ calls[c].settled.kind = "error")
    => /\ calls[c].out.kind = "error"
       /\ calls[c].out.e = calls[c].settled.e
       /\ calls[c].out.e.at = calls[c].attempt

C7_Witness ==
  \E c \in Calls :
    /\ IsError(c) /\ calls[c].args.retry >= 1
    /\ calls[c].invoked = calls[c].args.retry + 1
    /\ calls[c].out.e.at = calls[c].args.retry
    /\ calls[c].out.e.code = "provider_error"

\* a call with policy "session" starts after d has returned a fresh,
\* validated result for the same fingerprint
StartsAfter(c, d) ==
  /\ c # d
  /\ Started(c)
  /\ calls'[c].args.cache = "session"
  /\ StoredFresh(d)
  /\ calls[d].cacheKey = calls'[c].cacheKey

ServedFromCache(c) ==
  /\ calls'[c].pc = "done"
  /\ calls'[c].out.kind = "result"
  /\ calls'[c].out.r.fromCache = TRUE
  /\ calls'[c].invoked = 0

\* C8 (as stated): a successful attempt under policy "session" stores its
\* result before executeAI returns, so that every call with the same
\* fingerprint that starts after the first one returned is served from the
\* cache.
C8_Original ==
  [][\A c, d \in Calls : StartsAfter(c, d) => ServedFromCache(c)]_vars

\* C8 (amended): ... is served from the cache, provided clearSessionCache
\* has not been called since the result was stored.
C8_StoredBeforeReturn ==
  /\ [](\A d \in Calls :
          (calls[d].pc \in {"settled", "done"} /\ StoredFresh(d) /\ calls[d].storeClears = nClears)
            => (/\ HasEntry(sessionCache, calls[d].cacheKey.s)))
  /\ [][\A c, d \in Calls :
          (StartsAfter(c, d) /\ calls[d].storeClears = nClears)
            => ServedFromCache(c)]_vars

C8_Witness ==
  \E c, d \in Calls :
    /\ c # d /\ StoredFresh(d) /\ calls[d].storeClears = nClears
    /\ IsResult(c) /\ calls[c].out.r.fromCache /\ calls[c].invoked = 0
    /\ calls[c].cacheKey = calls[d].cacheKey
    /\ calls[c].args # calls[d].args

\* C9: the fingerprint depends on temperature, maxTokens and
\* providerOptions: two requests with the same task, context and schema that
\* differ in any of the three have different fingerprints.
C9_OptionsInFingerprint ==
  (key1 # NoKey /\ key2 # NoKey /\ OptionsOf(req1) # OptionsOf(req2)) => key1 # key2

\* C10: the fingerprint does not depend on key insertion order: two contexts
\* with the same keys and values at every nesting level, inserted in
\* different orders, have the same stableStringify text and the same
\* buildCacheKey.
C10_KeyOrderInvariant ==
  req1 # NoRequest =>
    /\ stableStringify(req1.input) = stableStringify(req2.input)
    /\ (key1 # NoKey /\ key2 # NoKey /\ OptionsOf(req1) = OptionsOf(req2)) => key1 = key2

\* both fingerprints are computed and the two contexts differ in the
\* insertion order of the root and of a nested object
C10_Witness ==
  /\ req1 # NoRequest /\ key1 # NoKey /\ key2 # NoKey
  /\ OptionsOf(req1) = OptionsOf(req2)
  /\ Len(req1.input.f) = 2
  /\ KeysOf(req1.input.f) # KeysOf(req2.input.f)
  /\ \E i, j \in 1..2 :
       /\ req1.input.f[i][1] = req2.input.f[j][1]
       /\ req1.input.f[i][2].t = "object"
       /\ KeysOf(req1.input.f[i][2].f) # KeysOf(req2.input.f[j][2].f)

\* the attempt of c that has just settled failed with kind configuration
ConfigurationFailure(c) ==
  /\ calls[c].pc \in {"settled", "delay"}
  /\ calls[c].settled.kind = "error"
  /\ calls[c].settled.e.code = "configuration"

\* C11: a failure of kind configuration is never retried: after an attempt of
\* executeAI or executeAIStream has failed with kind configuration, the
\* provider is not invoked again, whatever the retry count.
C11_ConfigurationNotRetried ==
  [][\A c \in Calls :
       ConfigurationFailure(c) => calls'[c].invoked = calls[c].invoked]_vars

AIErrorKinds == {"validation_error", "provider_error", "timeout", "configuration"}

\* C12: every failure executeAI or executeAIStream raises to the caller is an
\* AIError whose kind is validation_error, provider_error, timeout or
\* configuration, for every way an attempt or the fallback resolution
\* (a throwing fallback function included) can fail.
C12_OnlyAIErrorsRaised ==
  \A c \in Calls :
    IsError(c) => (calls[c].out.e.ai /\ calls[c].out.e.code \in AIErrorKinds)

\* the messages of the errors the engine creates itself
EngineMessages(mode) ==
  {Messages(mode).timeout, Messages(mode).invalid, Messages(mode).failed,
   Messages(mode).exhausted}

\* the error was created by the engine (not passed through from the provider)
EngineAssigned(c, e) == e.ai /\ e.message \in EngineMessages(calls[c].args.mode)

\* C13 (as stated): every error the engine creates itself (provider_error,
\* validation_error, timeout) carries the original failure as its cause.
C13_Original ==
  \A c \in Calls :
    (/\ calls[c].pc \in {"settled", "delay", "done"}
     /\ calls[c].settled.kind = "error"
     /\ EngineAssigned(c, calls[c].settled.e))
    => calls[c].settled.e.cause # Undef

\* the error recorded for an attempt whose provider call settled with o
CauseOf(c, o, e) ==
  CASE e.message = Messages(calls[c].args.mode).timeout ->
         e.code = "timeout" /\ e.cause = Undef
    [] e.message = Messages(calls[c].args.mode).invalid ->
         e.code = "validation_error" /\ o.ok /\ e.cause = ZodError
    [] e.message = Messages(calls[c].args.mode).failed ->
         e.code = "provider_error" /\ ~o.ok /\ ~o.ai
           /\ e.cause = Thrown(o, calls[c].attempt)
    [] OTHER -> ~o.ok /\ e = Thrown(o, calls[c].attempt)

\* C13 (amended): an error of kind provider_error or validation_error that
\* the engine creates carries the provider's exception, respectively the
\* validator's diagnostic, as its cause; an error of kind timeout carries no
\* cause; an AIError raised by the provider is passed through unchanged.
C13_CausePreserved ==
  /\ [][\A c \in Calls : \A o \in ProviderOutcomes :
          (/\ calls[c].pc = "awaiting"
           /\ calls'[c].settled.kind = "error"
           /\ ProviderSettles(c, o))
            => CauseOf(c, o, calls'[c].settled.e)]_vars
  /\ [](\A c \in Calls :
          (IsError(c) /\ calls[c].out.e.ai
             /\ calls[c].out.e.message = Messages(calls[c].args.mode).exhausted)
            => calls[c].out.e.cause = calls[c].lastError)

C13_Witness ==
  \E c \in Calls :
    /\ IsError(c)
    /\ calls[c].out.e.ai
    /\ calls[c].out.e.message = Messages(calls[c].args.mode).failed
    /\ calls[c].out.e.cause = RawError("AbortError", calls[c].attempt)
    /\ calls[c].args.retry >= 1

\* C14: every result executeAI returns without usedFallback carries data
\* that passes the schema given in that same call, results served from the
\* session cache included, whatever earlier calls stored there.
C14_ResultPassesSchema ==
  \A c \in Calls :
    (IsResult(c) /\ calls[c].args.mode = "exec" /\ ~UsedFallback(calls[c].out.r))
      => safeParse(calls[c].args.schema, calls[c].out.r.data)

\* C20 (as stated): getFromSessionCache returns, for every stored entry, a
\* copy with fromCache = true and tokens = 0, whatever the entry was stored
\* with.
C20_Original ==
  \A k \in DOMAIN sessionCache :
    /\ getFromSessionCache(sessionCache, k).fromCache = TRUE
    /\ getFromSessionCache(sessionCache, k).tokens = 0

\* C20 (amended): getFromSessionCache returns a copy with fromCache = true
\* and with the data and the tokens the entry was stored with (the entry
\* itself keeps fromCache = false); tokens become 0 in executeAI, which
\* overrides them on the result it returns for a hit.
C20_GetTagsCopy ==
  \A k \in DOMAIN sessionCache :
    LET hit == getFromSessionCache(sessionCache, k)
    IN /\ hit.fromCache = TRUE
       /\ hit.tokens = sessionCache[k].tokens
       /\ hit.data = sessionCache[k].data
       /\ sessionCache[k].fromCache = FALSE
       /\ CacheHitResult(hit).tokens = 0
       /\ CacheHitResult(hit).data = hit.data

\* a call was served an entry stored with tokens > 0
C20_Witness ==
  \E c \in Calls : \E k \in DOMAIN sessionCache :
    /\ IsResult(c) /\ calls[c].invoked = 0 /\ calls[c].cacheKey.s = k
    /\ sessionCache[k].tokens > 0
    /\ getFromSessionCache(sessionCache, k).tokens > 0
    /\ calls[c].out.r = CacheHitResult(getFromSessionCache(sessionCache, k))

IsStream(c) == calls[c].pc # "idle" /\ calls[c].args.mode = "stream"

\* C15: executeAIStream with a provider that does not declare streaming
\* support (supportsStreaming false or no executeStream) fails with kind
\* configuration before any provider call: the provider is not invoked,
\* onChunk is not called, there is no retry and the fallback is not used.
C15_NoStreamingSupport ==
  /\ [][\A c \in Calls :
          (/\ Started(c)
           /\ calls'[c].args.mode = "stream"
           /\ ~(calls'[c].args.supportsStreaming /\ calls'[c].args.executeStream))
          => /\ calls'[c].pc = "done"
             /\ calls'[c].out.kind = "error"
             /\ calls'[c].out.e.ai
             /\ calls'[c].out.e.code = "configuration"
             /\ calls'[c].invoked = 0
             /\ calls'[c].lastChunk = NoChunk]_vars
  /\ [][\A c \in Calls : Done(c) => calls'[c] = calls[c]]_vars

C15_Witness ==
  \E c \in Calls :
    /\ IsError(c) /\ calls[c].args.mode = "stream"
    /\ calls[c].args.supportsStreaming /\ ~calls[c].args.executeStream
    /\ calls[c].args.fallback # NoFallback /\ calls[c].args.retry >= 1
    /\ calls[c].out.e.code = "configuration" /\ calls[c].invoked = 0

\* C16: in executeAIStream, once the caller's signal is aborted no further
\* attempt is started: provider.executeStream is not invoked again, even when
\* retries remain.
C16_NoAttemptAfterAbort ==
  [][\A c \in Calls :
       (IsStream(c) /\ calls[c].args.hasSignal /\ calls[c].signal)
         => calls'[c].invoked = calls[c].invoked]_vars

\* C17: during a streaming attempt the signal handed to
\* provider.executeStream is aborted exactly when the caller's signal has
\* been aborted or the attempt's deadline has fired.
C17_CombinedSignal ==
  \A c \in Calls :
    (IsStream(c) /\ calls[c].pc = "awaiting")
      => (calls[c].combined.aborted
            <=> ((calls[c].args.hasSignal /\ calls[c].signal) \/ calls[c].aborted))

\* an attempt that started with the caller's signal already aborted
C17_Witness ==
  \E c \in Calls :
    /\ IsStream(c) /\ calls[c].pc = "awaiting"
    /\ calls[c].args.hasSignal /\ calls[c].signal
    /\ calls[c].timer /\ ~calls[c].aborted
    /\ calls[c].combined.aborted
    /\ calls[c].attempt >= 1

IsPrefix(p, t) == Len(p) <= Len(t) /\ SubSeq(t, 1, Len(p)) = p

\* onChunk is called in this step of c
OnChunkCalled(c) ==
  \/ \E chunk \in StreamDeltas : ChunkArrives(c, chunk)
  \/ StreamEnds(c)

\* C18: over all onChunk calls of one executeAIStream call, attempts
\* included, each chunk's text has the previous chunk's text as a prefix and
\* no chunk follows a chunk with done = true.
C18_ChunksMonotone ==
  [][\A c \in Calls :
       (OnChunkCalled(c) /\ calls[c].lastChunk # NoChunk)
         => /\ ~calls[c].lastChunk.done
            /\ IsPrefix(calls[c].lastChunk.text, calls'[c].lastChunk.text)]_vars

RECURSIVE Concat(_)
Concat(ds) == IF ds = <<>> THEN <<>> ELSE Head(ds) \o Concat(Tail(ds))

\* C19: within one streaming attempt each non-final chunk has done = false
\* and text = the concatenation of the deltas received so far; when the
\* stream ends, one final chunk with delta "", done = true and the full text
\* is emitted before the response is normalised, and the attempt's data is
\* validated from exactly that text.
C19_ChunkAccumulation ==
  [][\A c \in Calls :
       /\ \A chunk \in StreamDeltas :
            ChunkArrives(c, chunk)
              => calls'[c].lastChunk =
                   [text |-> Concat(calls[c].deltas) \o chunk, delta |-> chunk,
                    done |-> FALSE]
       /\ StreamEnds(c)
            => /\ calls'[c].lastChunk =
                    [text |-> Concat(calls[c].deltas), delta |-> <<>>, done |-> TRUE]
               /\ calls'[c].pc = "awaiting" /\ calls'[c].settled = NoOutcome
       /\ (IsStream(c) /\ calls[c].pc = "awaiting" /\ calls'[c].pc = "settled"
             /\ calls'[c].settled.kind = "result")
            => /\ calls[c].lastChunk = [text |-> Concat(calls[c].deltas),
                                        delta |-> <<>>, done |-> TRUE]
               /\ safeJsonParse(calls[c].lastChunk.text)
                    = Num(calls'[c].settled.r.data)
               /\ safeParse(calls[c].args.schema, calls'[c].settled.r.data)]_vars

\* a stream of two chunks ended and its text validated
C19_Witness ==
  \E c \in Calls :
    /\ IsStream(c) /\ calls[c].pc = "settled" /\ calls[c].settled.kind = "result"
    /\ calls[c].lastChunk # NoChunk /\ calls[c].lastChunk.done
    /\ Len(calls[c].lastChunk.text) = 2
    /\ calls[c].settled.r.data = 1

\* the fingerprints the calls can have
Fingerprints == {buildCacheKey(a).s : a \in CacheArgs}

\* C21: clearSessionCache empties the session cache synchronously: right
\* after it, get returns nothing for every fingerprint, and a call that
\* starts on the cleared cache invokes the provider, whatever preceded the
\* clear.
C21_ClearEmpties ==
  /\ [][nClears' # nClears =>
          \A k \in Fingerprints : getFromSessionCache(sessionCache', k) = Undef]_vars
  /\ [][\A c \in Calls :
          (/\ nClears > 0
           /\ \A k \in Fingerprints : getFromSessionCache(sessionCache, k) = Undef
           /\ Started(c))
          => (calls'[c].pc = "awaiting" /\ calls'[c].invoked = 1)]_vars

\* d stored a result, the cache was cleared, and c, started after the clear
\* with the same fingerprint, called the provider
C21_Witness ==
  \E c, d \in Calls :
    /\ c # d /\ StoredFresh(d) /\ calls[d].storeClears < nClears
    /\ calls[c].pc = "awaiting" /\ calls[c].invoked = 1
    /\ calls[c].args.cache = "session"
    /\ calls[c].cacheKey = calls[d].cacheKey
    /\ calls[c].storeClears = nClears
    /\ sessionCache = EmptyCache

\* c and d both missed, both called the provider and both wrote the entry of
\* the same fingerprint, and the cache was not cleared since
BothWrote(c, d) ==
  /\ c # d
  /\ StoredFresh(c) /\ StoredFresh(d)
  /\ calls[c].cacheKey = calls[d].cacheKey
  /\ calls[c].storeClears = nClears /\ calls[d].storeClears = nClears

\* C22: two concurrent executeAI calls with the same fingerprint can both
\* miss and both invoke the provider; once both have completed successfully
\* the cache holds one entry for the fingerprint, the result of the call
\* that wrote last.
C22_LastWriteWins ==
  \A c, d \in Calls :
    BothWrote(c, d) =>
      LET k == calls[c].cacheKey.s
      IN /\ calls[c].invoked = 1 /\ calls[d].invoked = 1
         /\ HasEntry(sessionCache, k)
         /\ cacheWriter[k] \in {c, d}
         /\ sessionCache[k] = calls[cacheWriter[k]].settled.r

\* both calls missed and completed with different data; the entry is the
\* second writer's
C22_Witness ==
  \E c, d \in Calls :
    /\ BothWrote(c, d) /\ Done(c) /\ Done(d)
    /\ calls[c].out.r.data # calls[d].out.r.data
    /\ ~calls[c].out.r.fromCache /\ ~calls[d].out.r.fromCache
    /\ cacheWriter[calls[c].cacheKey.s] = d
    /\ sessionCache[calls[c].cacheKey.s].data = calls[d].out.r.data

\* the result of c is a fallback
FallbackResult(c) == IsResult(c) /\ UsedFallback(calls[c].out.r)

FreshSuccess(c) ==
  /\ IsResult(c) /\ calls[c].settled.kind = "result"
  /\ calls[c].out = calls[c].settled

\* C25 (as stated): on a fresh success the tokens are the provider-reported
\* count when there is one (0 included), and otherwise
\* ceil(promptLength/4) + ceil(contextLength/4) + 8, the context term being
\* 0 when no context is given.
C25_Original ==
  \A c \in Calls :
    FreshSuccess(c) =>
      LET a == calls[c].args
      IN calls[c].out.r.tokens =
           IF calls[c].reported # Undef THEN calls[c].reported.n
           ELSE CeilDiv4(Len(a.prompt))
                  + (IF a.input = Undef THEN 0
                     ELSE CeilDiv4(Len(stableStringify(a.input).s)))
                  + 8

\* C25 (amended): ... the context term being 0 when the context is absent
\* or falsy (undefined, null, 0, "", false).
C25_TokenResolution ==
  \A c \in Calls :
    FreshSuccess(c) =>
      LET a == calls[c].args
      IN calls[c].out.r.tokens =
           IF calls[c].reported # Undef THEN calls[c].reported.n
           ELSE CeilDiv4(Len(a.prompt))
                  + (IF ~Truthy(a.input) THEN 0
                     ELSE CeilDiv4(Len(stableStringify(a.input).s)))
                  + 8

\* a fresh success without a reported count for the context 0, and one with
\* a reported count of 0 are both reachable; this is the first
C25_Witness ==
  \E c \in Calls :
    /\ FreshSuccess(c) /\ calls[c].reported = Undef
    /\ calls[c].args.input = Num(0)
    /\ calls[c].out.r.tokens = 9

NormalizedTo(val) ==
  /\ normalizer.response.ok
  /\ normalizer.response.data = val

\* C23: against a string schema, the raw text {"data":"42"} followed by a
\* line break and "Note: approximate" normalizes to "42", and the raw text
\* "  hello  " normalizes to "hello", taken directly without JSON parsing
C23_WrapperAndProse ==
  (normalizer.called /\ normalizer.schema = ZodString)
    => /\ normalizer.rawContent = Str(ObjectText1(DataKey, Quote(FortyTwo)) \o Note)
            => NormalizedTo(Str(FortyTwo))
       /\ normalizer.rawContent = Str(<<" ", " ">> \o Hello \o <<" ", " ">>)
            => NormalizedTo(Str(Hello)) /\ normalizer.candidate.direct

\* C27: parseAndValidateResponse has three outcomes: provider_error with
\* "<source> returned no data" when the candidate is undefined, else
\* validation_error with the validator's diagnostic as cause when the
\* candidate fails the schema, else the validated value; a value it returns
\* passes the schema
C27_ThreeOutcomes ==
  normalizer.called
    => LET data == normalizer.candidate.data
           out == normalizer.response
       IN /\ data = Undef
               => /\ ~out.ok /\ out.code = "provider_error" /\ out.cause = Undef
                  /\ out.message = ReturnedNoData(normalizer.providerName)
          /\ (data # Undef /\ ~safeParseValue(normalizer.schema, data))
               => ~out.ok /\ out.code = "validation_error" /\ out.cause = ZodError
          /\ (data # Undef /\ safeParseValue(normalizer.schema, data))
               => out.ok /\ out.data = validatedData(normalizer.schema, data)
          /\ out.ok => safeParseValue(normalizer.schema, out.data)

\* a candidate unwrapped from an object was rejected by the schema
C27_Witness ==
  /\ normalizer.called
  /\ normalizer.rawContent = Str(ObjectText1(DataKey, Quote(FortyTwo)))
  /\ normalizer.schema = ZodNumber
  /\ normalizer.candidate.data = Str(FortyTwo)
  /\ ~normalizer.response.ok /\ normalizer.response.code = "validation_error"

\* the normalizer unwrapped an object (no array) for a primitive schema
UnwrappedObject ==
  /\ normalizer.called /\ isPrimitiveSchema(normalizer.schema)
  /\ ~normalizer.candidate.direct
  /\ normalizer.candidate.parsed.t = "object"

\* the first wrapper key, in the order of the list, that is a key of obj
FirstPresent(obj) ==
  CHOOSE n \in 1..Len(WrapperKeys) :
    /\ HasKey(obj, WrapperKeys[n])
    /\ \A m \in 1..(n - 1) : ~HasKey(obj, WrapperKeys[m])

\* the original statement of C28: the first wrapper key present is
\* unwrapped whatever other keys the object has, and only an object without
\* wrapper keys is unwrapped from its single key
C28_Original ==
  UnwrappedObject
    => LET obj == normalizer.candidate.parsed
       IN normalizer.candidate.data =
            IF \E n \in 1..Len(WrapperKeys) : HasKey(obj, WrapperKeys[n])
            THEN ValueOf(obj.f, WrapperKeys[FirstPresent(obj)])
            ELSE IF Len(obj.f) = 1 THEN obj.f[1][2]
            ELSE obj

\* C28: for a primitive target, unwrapLLMResponse unwraps an object with a
\* single key from that key, whether it is a wrapper key or not; an object
\* with any other number of keys is unwrapped from its data key when it has
\* one, whatever its other keys, and is returned whole otherwise
C28_SingleKeyOrData ==
  UnwrappedObject
    => LET obj == normalizer.candidate.parsed
       IN normalizer.candidate.data =
            IF Len(obj.f) = 1 THEN obj.f[1][2]
            ELSE IF HasKey(obj, DataKey) THEN ValueOf(obj.f, DataKey)
            ELSE obj

\* an object with a result key and another key came back whole
C28_Witness ==
  /\ UnwrappedObject
  /\ Len(normalizer.candidate.parsed.f) = 2
  /\ HasKey(normalizer.candidate.parsed, ResultKey)
  /\ ~HasKey(normalizer.candidate.parsed, DataKey)
  /\ normalizer.candidate.data = normalizer.candidate.parsed

\* C29: for an object schema and a raw JSON text whose parsed value
\* satisfies the schema, parseAndValidateResponse returns that value, also
\* when the schema declares a field named data
C29_ConformingAccepted ==
  (/\ normalizer.called
   /\ normalizer.schema.typeName = ZodObjectName
   /\ normalizer.rawContent.t = "string"
   /\ JSONparse(normalizer.rawContent.s).ok
   /\ safeParseValue(normalizer.schema, JSONparse(normalizer.rawContent.s).v))
    => NormalizedTo(validatedData(normalizer.schema,
                                  JSONparse(normalizer.rawContent.s).v))

\* the example of a schema is built from the examples of the schemas in it
ExampleMapping(def, example) ==
  LET typeName == def.typeName
      Recognized == {ZodStringName, ZodNumberName, ZodBooleanName, ZodNullName,
                     ZodUndefinedName, ZodLiteralName, ZodEnumName,
                     ZodNativeEnumName, ZodArrayName, ZodObjectName,
                     ZodOptionalName, ZodNullableName, ZodDefaultName, ZodUnionName,
                     ZodTupleName, ZodRecordName, ZodAnyName, ZodUnknownName}
  IN /\ typeName \notin Recognized
          => example = Str(<<"<">> \o typeName.s \o <<">">>)
     /\ (typeName = ZodObjectName /\ Has(def, "shape"))
          => /\ example.t = "object"
             /\ KeysOf(example.f) = [i \in 1..Len(def.shape) |-> def.shape[i][1]]
             /\ \A i \in 1..Len(def.shape) :
                  example.f[i][2] = buildExample(def.shape[i][2])
     /\ (typeName = ZodArrayName /\ Has(def, "type"))
          => /\ example.t = "array" /\ Len(example.e) = 1
             /\ example.e[1] = buildExample(def.type)
     /\ (typeName \in {ZodOptionalName, ZodNullableName} /\ Has(def, "innerType"))
          => example = buildExample(def.innerType)
     /\ (typeName = ZodUnionName /\ Has(def, "options") /\ Len(def.options) > 0)
          => example = buildExample(def.options[1])
     /\ (typeName = ZodEnumName /\ Has(def, "values"))
          => example = Str(JoinStrings(def.values, <<" ", "|", " ">>))

C26_MockDeterminism ==
  (/\ mock.called
   /\ mock.args.temperature = 0
   /\ mock.results[1] # NoOutcome /\ mock.results[2] # NoOutcome)
    => mock.results[1].data = mock.results[2].data

\* the caller passed a signal and it is aborted
SignalAborted(c) == calls[c].args.hasSignal /\ calls[c].signal

\* C31: in executeAIStream a fixed delay step separates every two
\* consecutive attempts: an attempt after the first starts only when the
\* delay that follows the previous failed attempt has elapsed; the delay is
\* taken only after a failed attempt that is not the last one and with the
\* caller's signal not aborted; after the final attempt, or after a failure
\* with the caller's signal aborted, the loop ends at once with the fallback
\* or the error.
C31_RetryDelay ==
  /\ [][\A c \in Calls :
          (IsStream(c) /\ calls'[c].attempt # calls[c].attempt)
            => (/\ calls[c].pc = "delay"
                /\ calls'[c].attempt = calls[c].attempt + 1
                /\ calls'[c].pc = "awaiting")]_vars
  /\ [][\A c \in Calls :
          (IsStream(c) /\ calls[c].pc # "delay" /\ calls'[c].pc = "delay")
            => (/\ calls[c].pc = "settled"
                /\ calls[c].settled.kind = "error"
                /\ calls[c].attempt < calls[c].args.retry
                /\ ~SignalAborted(c))]_vars
  /\ [][\A c \in Calls :
          (/\ IsStream(c)
           /\ calls[c].pc = "settled"
           /\ calls[c].settled.kind = "error"
           /\ calls[c].attempt = calls[c].args.retry \/ SignalAborted(c)
           /\ calls'[c].pc # "settled")
            => (/\ calls'[c].pc = "done"
                /\ calls'[c].invoked = calls[c].invoked)]_vars

\* the second attempt of a stream is running, after the delay that followed
\* the failure of the first
C31_Witness ==
  \E c \in Calls :
    /\ IsStream(c)
    /\ calls[c].pc = "awaiting"
    /\ calls[c].attempt = 1
    /\ calls[c].invoked = 2
    /\ calls[c].lastError # Undef

\* C36: each attempt of executeAI and of executeAIStream has its own
\* deadline timer and controller, and the timer is cancelled when the
\* attempt ends: a timer is pending only while its attempt awaits the
\* provider, it fires only then and only aborts the controller of that
\* attempt, every attempt starts with a controller that is not aborted, an
\* attempt is reclassified as timed out only when its own controller was
\* aborted, and no timer is pending once the call has returned or raised.
C36_TimerPerAttempt ==
  /\ [](\A c \in Calls : calls[c].timer => calls[c].pc = "awaiting")
  /\ [][\A c \in Calls :
          (calls'[c].aborted /\ ~calls[c].aborted)
            => (/\ calls[c].pc = "awaiting"
                /\ calls[c].timer /\ ~calls'[c].timer
                /\ calls'[c].pc = "awaiting"
                /\ calls'[c].attempt = calls[c].attempt)]_vars
  /\ [][\A c \in Calls :
          (calls[c].pc # "awaiting" /\ calls'[c].pc = "awaiting")
            => (calls'[c].timer /\ ~calls'[c].aborted)]_vars
  /\ [][\A c \in Calls :
          (/\ calls[c].pc = "awaiting"
           /\ calls'[c].pc = "settled"
           /\ calls'[c].settled.kind = "error"
           /\ calls'[c].settled.e.ai
           /\ calls'[c].settled.e.message = Messages(calls[c].args.mode).timeout)
            => (calls[c].aborted /\ ~calls[c].timer /\ ~calls'[c].timer)]_vars

\* the first attempt ran into its deadline, and the second attempt is
\* awaiting the provider with a pending timer and a fresh controller
C36_Witness ==
  \E c \in Calls :
    /\ calls[c].pc = "awaiting"
    /\ calls[c].attempt = 1
    /\ calls[c].lastError # Undef
    /\ calls[c].lastError.ai
    /\ calls[c].lastError.code = "timeout"
    /\ calls[c].timer
    /\ ~calls[c].aborted

\* the step is a setSessionCache of fingerprint k by the call c
StoresEntry(c, k) ==
  /\ calls[c].pc = "awaiting"
  /\ calls'[c].pc = "settled"
  /\ calls'[c].settled.kind = "result"
  /\ calls[c].args.cache = "session"
  /\ calls[c].cacheKey.s = k

\* C32: the session cache has no eviction or expiry: an entry only changes
\* or disappears by a set of its own fingerprint or by clearSessionCache,
\* whatever gets and whatever sets of other fingerprints happen; until then
\* get returns the data of the result that was set; the probe of executeAI,
\* a hit included, leaves the cache contents unchanged.
C32_NoEviction ==
  /\ [][\A k \in Fingerprints :
          (/\ HasEntry(sessionCache, k)
           /\ ~HasEntry(sessionCache', k) \/ sessionCache'[k] # sessionCache[k])
            => (nClears' # nClears \/ \E c \in Calls : StoresEntry(c, k))]_vars
  /\ [](\A k \in Fingerprints :
          HasEntry(sessionCache, k)
            => getFromSessionCache(sessionCache, k).data
                 = calls[cacheWriter[k]].settled.r.data)
  /\ [][\A c \in Calls : Started(c) => sessionCache' = sessionCache]_vars

\* the entry of one fingerprint was set first, then the entry of another
\* fingerprint: both are there, never cleared
C32_Witness ==
  \E c, d \in Calls : \E k1, k2 \in Fingerprints :
    /\ c # d /\ k1 # k2 /\ nClears = 0
    /\ Done(c) /\ Done(d)
    /\ HasEntry(sessionCache, k1) /\ cacheWriter[k1] = c
    /\ HasEntry(sessionCache, k2) /\ cacheWriter[k2] = d
    /\ getFromSessionCache(sessionCache, k1).data = calls[c].out.r.data
    /\ getFromSessionCache(sessionCache, k2).data = calls[d].out.r.data
    /\ calls[c].out.r.data # calls[d].out.r.data

\* the call c runs under cache policy false
PolicyFalse(c) == calls[c].pc # "idle" /\ calls[c].args.cache = "false"

\* C33: with cache policy false executeAI neither reads nor writes the
\* session cache: no step of the call changes the cache contents, the call
\* invokes the provider even when an entry for its fingerprint exists, and
\* its result has fromCache = false.
C33_PolicyFalse ==
  /\ [][\A c \in Calls :
          (calls'[c] # calls[c] /\ calls'[c].args.cache = "false")
            => (sessionCache' = sessionCache /\ cacheWriter' = cacheWriter)]_vars
  /\ [][\A c \in Calls :
          (Started(c) /\ calls'[c].args.cache = "false")
            => (calls'[c].pc = "awaiting" /\ calls'[c].invoked = 1)]_vars
  /\ [](\A c \in Calls :
          (PolicyFalse(c) /\ IsResult(c))
            => (~calls[c].out.r.fromCache /\ calls[c].invoked >= 1))

\* an entry for the fingerprint of c was stored by the other call, and c,
\* under policy false, returned other data that it got from the provider
C33_Witness ==
  \E c, d \in Calls :
    /\ c # d /\ PolicyFalse(c) /\ IsResult(c)
    /\ StoredFresh(d) /\ calls[d].storeClears = nClears
    /\ calls[d].cacheKey = buildCacheKey(calls[c].args)
    /\ HasEntry(sessionCache, calls[d].cacheKey.s)
    /\ calls[c].out.r.data # sessionCache[calls[d].cacheKey.s].data
    /\ calls[c].invoked = 1

\* C34: executeAIStream never reads or writes the session cache: no step
\* of a stream call changes the cache contents, every call on a provider
\* that supports streaming invokes executeStream, also when the cache holds
\* an entry for the same task, context and schema, and every result it
\* returns has fromCache = false.
C34_StreamBypassesCache ==
  /\ [][\A c \in Calls :
          (calls'[c] # calls[c] /\ calls'[c].args.mode = "stream")
            => (sessionCache' = sessionCache /\ cacheWriter' = cacheWriter)]_vars
  /\ [][\A c \in Calls :
          (/\ Started(c)
           /\ calls'[c].args.mode = "stream"
           /\ calls'[c].args.supportsStreaming
           /\ calls'[c].args.executeStream)
            => (calls'[c].pc = "awaiting" /\ calls'[c].invoked = 1)]_vars
  /\ [](\A c \in Calls :
          (IsStream(c) /\ IsResult(c))
            => (~calls[c].out.r.fromCache /\ calls[c].invoked >= 1))

\* the cache holds the result of an executeAI call for the task, context
\* and schema of the stream, and the stream returned other data from the
\* provider
C34_Witness ==
  \E c, d \in Calls :
    /\ c # d /\ IsStream(c) /\ IsResult(c) /\ ~UsedFallback(calls[c].out.r)
    /\ StoredFresh(d)
    /\ calls[d].cacheKey = buildCacheKey(calls[c].args)
    /\ HasEntry(sessionCache, calls[d].cacheKey.s)
    /\ sessionCache[calls[d].cacheKey.s].data # calls[c].out.r.data
    /\ cacheWriter[calls[d].cacheKey.s] = d

\* C35: in the engine that reports usedFallback a fallback result is never
\* written to the session cache: the step that returns a fallback leaves
\* the cache unchanged, a call that returned a fallback wrote no entry, no
\* entry is a fallback result, and the next call with the same fingerprint
\* invokes the provider again.
C35_FallbackNotCached ==
  /\ [][\A c \in Calls :
          (~Done(c) /\ calls'[c].pc = "done" /\ calls'[c].out.kind = "result"
             /\ UsedFallback(calls'[c].out.r))
            => (sessionCache' = sessionCache /\ cacheWriter' = cacheWriter)]_vars
  /\ [](\A c \in Calls :
          FallbackResult(c)
            => (/\ calls[c].settled.kind = "error"
                /\ \A k \in DOMAIN cacheWriter : cacheWriter[k] # c))
  /\ [](\A k \in DOMAIN sessionCache : ~UsedFallback(sessionCache[k]))
  /\ [][\A c, d \in Calls :
          (/\ c # d
           /\ FallbackResult(c)
           /\ calls[c].args.mode = "exec"
           /\ calls[c].args.cache = "session"
           /\ Started(d)
           /\ calls'[d].args.mode = "exec"
           /\ calls'[d].cacheKey = calls[c].cacheKey)
            => (/\ calls'[d].pc = "awaiting"
                /\ calls'[d].invoked = 1)]_vars

\* c returned its fallback under policy "session"; d, started afterwards
\* with the same fingerprint, called the provider and returned fresh data
C35_Witness ==
  \E c, d \in Calls :
    /\ c # d
    /\ FallbackResult(c) /\ calls[c].args.cache = "session"
    /\ calls[c].args.mode = "exec"
    /\ IsResult(d) /\ ~UsedFallback(calls[d].out.r)
    /\ calls[d].args.mode = "exec"
    /\ calls[d].cacheKey = calls[c].cacheKey
    /\ calls[d].invoked = 1
    /\ ~calls[d].out.r.fromCache
    /\ sessionCache[calls[d].cacheKey.s].data = calls[d].out.r.data

\* C37: the useAI hook eventually reflects the latest options: when the
\* options key changes, also while a request for the previous options is
\* in flight, the hook runs executeAI with the latest options, so once no
\* request is in flight the outcome it exposes is the one of a run for the
\* current options key.
C37_LatestOptions ==
  (hook.mounted /\ ~hook.isRunning /\ hook.ranKey # Undef)
    => hook.ranKey = buildOptionsKey(hook.options)

\* C40: after a useAI run that ends in an error the hook exposes nothing
\* from an earlier run: with the error, data, tokens, fromCache,
\* usedFallback and fallbackReason are all undefined.
C40_ErrorClearsMetadata ==
  (hook.mounted /\ ~hook.isRunning /\ hook.error # Undef)
    => (/\ hook.data = Undef
        /\ hook.tokens = Undef
        /\ hook.fromCache = Undef
        /\ hook.usedFallback = Undef
        /\ hook.fallbackReason = Undef)


\* C38: in useAIStream, once start() has been called again the superseded
\* stream no longer changes the hook's state: the call whose closure
\* changed text, data, done, error, cost, loading or isStreaming last is
\* the call of the latest start().
C38_SupersededStreamSilent ==
  streamHook.mounted => streamHook.writer = streamHook.current

\* C39: in useAIStream, a stream that abort() was called on while it was
\* active never completes as done: its start() never sets done = true and
\* data, with or without a fallback.
C39_AbortedNeverDone ==
  streamHook.mounted => streamHook.stopped \cap streamHook.doneBy = {}

====
